---- MODULE Spec2Model ----
(***************************************************************************)
(* A model of douyin_downloader/cdp.py: the launcher of a browser with a   *)
(* remote-debugging port (start_cdp_browser), its teardown                 *)
(* (stop_cdp_browser) and the two requests built on them                   *)
(* (export_netscape_cookies_via_cdp, fetch_douyin_detail_json_via_cdp).    *)
(*                                                                         *)
(* Every action is one step of the code between two points where the       *)
(* environment (the browser, the socket, another request) can be observed  *)
(* or can interfere: an HTTP probe, a process spawn, one socket read.      *)
(***************************************************************************)
EXTENDS Integers, Sequences, FiniteSets, TLC

(***************************************************************************)
(* Bounds of the model.                                                    *)
(***************************************************************************)
\* Probes made by one _wait_port before its 12 s deadline passes (the code
\* sleeps 0.2 s after each failed probe, so the number is finite).
MaxPolls == 2
\* How many of the known install locations hold an executable.
MaxInstalled == 1
\* The timeout_s argument of fetch_douyin_detail_json_via_cdp, in tenths of
\* a second.
FetchTimeout == 12
\* How many times the browser reports a candidate as finished loading, so
\* how many getResponseBody commands one capture sends.
MaxBodyRequests == 2

(***************************************************************************)
(* Program constants.                                                      *)
(***************************************************************************)
DefaultPort == 9222
RangeLo == 9223
RangeHi == 9226
\* recv_obj's shortest and longest socket timeout, 0.1 s and 1.0 s, in
\* tenths of a second
MinRecvTimeout == 1
MaxRecvTimeout == 10
\* the exporter's socket timeout (10 s) and the timeouts of recv_until
\* (20 s) and wait_event (30 s), in units of five seconds
SockTimeout == 2
RecvUntilTimeout == 4
WaitEventTimeout == 6

Callers == {1, 2}
None == "None"
\* "no process": the proc field of a session that was attached to a live
\* endpoint (proc=None in the code)
NoProc == <<0, 0>>

Browsers == {"edge", "chrome", "firefox"}
ExePaths == {"edge_x86", "edge_pf", "chrome_pf", "chrome_x86"}
PreferredPorts == {DefaultPort, RangeLo}
AllPorts == DefaultPort .. (RangeHi - 1)

VARIABLES
  \* the arguments of the request (shared by the callers of one run)
  browser, port, user_data_dir, headless,
  \* the environment: install locations that exist, ports that answer
  \* /json/version
  installed, live,
  \* every process start_cdp_browser has spawned: a function from the
  \* process (the caller that spawned it and the number of that spawn among
  \* the caller's) to what is known of it
  procs,
  \* directories made by tempfile.mkdtemp, and those shutil.rmtree was
  \* called on
  tempCreated, rmtreeCalled,
  \* per caller: the control state of its request
  call,
  \* which request runs: "export" (export_netscape_cookies_via_cdp) or
  \* "fetch" (fetch_douyin_detail_json_via_cdp)
  op,
  \* time.time(), counted from the start of the loop that is running, and
  \* that loop's deadline
  now, deadline,
  \* the protocol client: the id counter and the commands sent so far
  msg_id, sent,
  \* the capture driver: its candidates dict and the request id and command
  \* id of the body it is waiting for
  candidates, cur,
  \* the frame the last ws.recv() returned that was not discarded: the reply
  \* recv_until returned or the capture driver took as the body, or the
  \* response frame the matching logic looked at
  frame,
  \* what the request returned, and the cookie file
  ret, out_file,
  \* downloader.download: its options and its control state
  opts, dl,
  \* the methods of the events a reply wait (recv_until) has read and passed
  \* over; it is kept by the specifications that follow single connections
  dropped,
  \* the text handed to extract_url or parse_cookies_from_browser, and what
  \* the function gave back
  arg, val,
  \* the window of gui.App: is_running, the download button, the event
  \* loop's position in start_download and the worker threads started
  gui

\* the state of the protocol dialogue
body == <<op, now, deadline, msg_id, sent, candidates, cur, frame, ret,
          out_file>>

vars == <<browser, port, user_data_dir, headless, installed, live, procs,
          tempCreated, rmtreeCalled, call, body, opts, dl, dropped, arg,
          val, gui>>

\* the arguments and the install locations, which do not change in a run,
\* and the frame of downloader.download, which the cdp module does not touch
fixed == <<browser, port, user_data_dir, headless, installed, opts, dl, arg,
           val, gui>>

\* no text function has been applied
NoVal == [kind |-> "unset"]
NoText == arg = <<>> /\ val = NoVal

\* gui.App.__init__ (gui.py, line 37): no download is running, the button
\* is enabled and no thread was started
NoGui ==
  gui = [is_running |-> FALSE, download_btn |-> "normal", pc |-> "mainloop",
         clicks |-> 0, threads |-> <<>>]

\* what the actions that keep no record of passed-over events leave alone
args == <<fixed, dropped>>

\* DownloadOptions as far as download looks at it: whether the text is
\* non-empty, which of the options are set, and whether the
\* cookies_from_browser value is one parse_cookies_from_browser accepts
DlOpts(t, v, fc, ck, fb) ==
  [text |-> t, via_cdp |-> v, cookies_from_cdp |-> fc, cookies |-> ck,
   cookies_from_browser |-> fb]

NoOpts == DlOpts(TRUE, FALSE, FALSE, FALSE, "none")

\* download has not been called
IdleDl == [pc |-> "idle", exc |-> None, result |-> None, media |-> None,
           cookiefile |-> None]

\* the cdp functions are called directly, not through download
NoDownload == opts = NoOpts /\ dl = IdleDl

(***************************************************************************)
(* Pure helpers.                                                           *)
(***************************************************************************)
\* range(9223, 9226)
RangeSeq(lo, hi) == [k \in 1 .. (hi - lo) |-> lo + k - 1]

\* (mutant) the range is appended without the test p != preferred_port
CandidatePortsDup(preferred_port) ==
  <<preferred_port>> \o RangeSeq(RangeLo, RangeHi)

\* _candidate_ports
CandidatePorts(preferred_port) ==
  <<preferred_port>> \o
    SelectSeq(RangeSeq(RangeLo, RangeHi), LAMBDA p : p # preferred_port)

\* the candidate lists of _find_browser_exe
ExeCandidates(b) ==
  IF b = "edge" THEN <<"edge_x86", "edge_pf">>
  ELSE IF b = "chrome" THEN <<"chrome_pf", "chrome_x86">>
  ELSE <<>>

\* (mutant) the first candidate is returned without looking for the file
FindBrowserExeFirst(b, exists) ==
  IF b \notin {"edge", "chrome"} THEN [ok |-> FALSE, val |-> "ValueError"]
  ELSE [ok |-> TRUE, val |-> Head(ExeCandidates(b))]

\* _find_browser_exe: the first existing candidate, or the exception raised
FindBrowserExe(b, exists) ==
  IF b \notin {"edge", "chrome"} THEN [ok |-> FALSE, val |-> "ValueError"]
  ELSE LET found == SelectSeq(ExeCandidates(b), LAMBDA p : p \in exists)
       IN  IF found # <<>> THEN [ok |-> TRUE, val |-> Head(found)]
           ELSE [ok |-> FALSE, val |-> "FileNotFoundError"]

\* _default_user_data_dir
DefaultUserDataDir(b) ==
  IF b = "edge" THEN [ok |-> TRUE, val |-> "edge_udd"]
  ELSE IF b = "chrome" THEN [ok |-> TRUE, val |-> "chrome_udd"]
  ELSE [ok |-> FALSE, val |-> "ValueError"]

\* base_udd of start_cdp_browser
BaseUdd == IF user_data_dir # None THEN user_data_dir
           ELSE DefaultUserDataDir(browser).val

\* the profile directories that are not temporary ones
RealDirs == {"edge_udd", "chrome_udd", "custom_udd"}

\* tempfile.mkdtemp: a fresh directory, here named after the caller
MkDTemp(c) == IF c = 1 THEN "tmp1" ELSE "tmp2"

\* (mutant) every real-profile attempt honours the requested mode
AttemptHeadlessRequested(requested, i) == requested

\* attempt_headless = headless or i > 0 (i counts from 0 in the code, the
\* model's index counts from 1)
AttemptHeadless(requested, i) == requested \/ i > 1

\* the headless flag passed to _start_browser_once in the temp-profile loop
TempHeadless == TRUE

NoSession == [port |-> 0, proc |-> NoProc, temp |-> None]

\* CdpSession(browser, port, proc, temp_user_data_dir)
CdpSession(p, pr, t) == [port |-> p, proc |-> pr, temp |-> t]

NoError == [type |-> None, ports |-> <<>>, last_error |-> <<>>, msg |-> <<>>]

IdleCall ==
  [pc |-> "idle", phase |-> "real", i |-> 0, proc |-> NoProc, polls |-> 0,
   nspawn |-> 0,
   temp_udd |-> None, last_error |-> <<>>, session |-> NoSession,
   exc |-> NoError, ws |-> "none", stops |-> 0]

ports == CandidatePorts(port)

\* the ports a launcher can probe
Probed == {ports[k] : k \in 1 .. Len(ports)}

\* the candidate port the caller is working on
CurPort(c) == ports[call[c].i]

InLauncher(c) ==
  call[c].pc \in {"check", "recheck", "spawn", "wait", "kill", "after_real",
                  "after_temp"}

(***************************************************************************)
(* The environment: a debugging endpoint comes up on a port (a spawned     *)
(* browser finished starting, or some other browser was started with that  *)
(* port) or goes away.  Only start_cdp_browser probes ports, so the set is *)
(* followed while some caller is inside it.                                *)
(***************************************************************************)
EnvUp(p) ==
  /\ \E c \in Callers : InLauncher(c)
  /\ p \notin live
  /\ live' = live \cup {p}
  /\ UNCHANGED <<args, body, procs, tempCreated, rmtreeCalled, call>>

EnvDown(p) ==
  /\ \E c \in Callers : InLauncher(c)
  /\ p \in live
  /\ live' = live \ {p}
  /\ UNCHANGED <<args, body, procs, tempCreated, rmtreeCalled, call>>

\* the set of live ports once caller c has left the launcher
LiveAfter(c) ==
  IF \E d \in Callers \ {c} : InLauncher(d) THEN live ELSE {}

(***************************************************************************)
(* start_cdp_browser                                                       *)
(***************************************************************************)
\* return CdpSession(...): the request goes on to its try block
Return(c, s) ==
  /\ call' = [call EXCEPT ![c].session = s, ![c].pc = "targets"]
  /\ live' = LiveAfter(c)

\* an exception leaves start_cdp_browser: the request has no session and
\* raises it (the call is outside the request's try block)
Raise(c, e) ==
  /\ call' = [call EXCEPT ![c].exc = e, ![c].pc = "done"]
  /\ live' = LiveAfter(c)

\* (mutant) the handle of the previous attempt's process is kept
AttachSessionStale(c, p) == CdpSession(p, call[c].proc, call[c].temp_udd)

\* line 141, 149 and 175: the session for an endpoint found live
AttachSession(c, p) == CdpSession(p, NoProc, call[c].temp_udd)

\* line 140-145
CheckExisting(c) ==
  /\ call[c].pc = "check"
  /\ \/ /\ port \in live
        /\ Return(c, AttachSession(c, port))
     \/ /\ port \notin live
        /\ user_data_dir = None
        /\ ~DefaultUserDataDir(browser).ok
        /\ Raise(c, [NoError EXCEPT !.type = "ValueError"])
     \/ /\ port \notin live
        /\ user_data_dir # None \/ DefaultUserDataDir(browser).ok
        /\ call' = [call EXCEPT ![c].pc = "recheck", ![c].i = 1,
                                ![c].phase = "real"]
        /\ UNCHANGED live
  /\ UNCHANGED <<args, body, procs, tempCreated, rmtreeCalled>>

\* line 148-149 and 174-175: the probe before each spawn
Recheck(c) ==
  /\ call[c].pc = "recheck"
  /\ \/ /\ CurPort(c) \in live
        /\ Return(c, AttachSession(c, CurPort(c)))
     \/ /\ CurPort(c) \notin live
        /\ call' = [call EXCEPT ![c].pc = "spawn"]
        /\ UNCHANGED live
  /\ UNCHANGED <<args, body, procs, tempCreated, rmtreeCalled>>

\* the process record made by one successful _start_browser_once
NewProc(c) ==
  [port |-> CurPort(c),
   headless |-> IF call[c].phase = "real"
                  THEN AttemptHeadless(headless, call[c].i)
                  ELSE TempHeadless,
   udd |-> IF call[c].phase = "real" THEN BaseUdd ELSE call[c].temp_udd,
   phase |-> call[c].phase,
   i |-> call[c].i,
   kills |-> 0]

\* the process a caller's next spawn makes
NewPid(c) == <<c, call[c].nspawn + 1>>

\* line 153-159 and 176-182: _start_browser_once
Spawn(c) ==
  /\ call[c].pc = "spawn"
  /\ LET exe == FindBrowserExe(browser, installed) IN
       \/ /\ ~exe.ok
          /\ Raise(c, [NoError EXCEPT !.type = exe.val])
          /\ UNCHANGED procs
       \/ \* subprocess.Popen fails (OSError)
          /\ exe.ok
          /\ Raise(c, [NoError EXCEPT !.type = "OSError"])
          /\ UNCHANGED procs
       \/ /\ exe.ok
          /\ procs' = procs @@ (NewPid(c) :> NewProc(c))
          /\ call' = [call EXCEPT ![c].pc = "wait", ![c].polls = 0,
                                  ![c].proc = NewPid(c),
                                  ![c].nspawn = @ + 1]
          /\ UNCHANGED live
  /\ UNCHANGED <<args, body, tempCreated, rmtreeCalled>>

\* line 160-161 and 183-184: one iteration of _wait_port's loop, and its
\* return once the deadline has passed
WaitPort(c) ==
  /\ call[c].pc = "wait"
  /\ \/ /\ call[c].polls < MaxPolls
        /\ CurPort(c) \in live
        /\ Return(c, CdpSession(CurPort(c), call[c].proc, call[c].temp_udd))
     \/ /\ call[c].polls < MaxPolls
        /\ CurPort(c) \notin live
        /\ call' = [call EXCEPT ![c].polls = @ + 1]
        /\ UNCHANGED live
     \/ /\ call[c].polls >= MaxPolls
        /\ call' = [call EXCEPT ![c].pc = "kill"]
        /\ UNCHANGED live
  /\ UNCHANGED <<args, body, procs, tempCreated, rmtreeCalled>>

\* the error string of line 169 and 192
LastError(c) == <<call[c].phase, CurPort(c)>>

\* (mutant) the real-profile loop gives up after one failed candidate
AfterAttemptOnce(c) ==
  IF call[c].phase = "real" THEN "after_real"
  ELSE IF call[c].i < Len(ports) THEN "recheck" ELSE "after_temp"

\* (mutant) the loop tries a failed candidate again
AfterAttemptAgain(c) == "recheck"

\* where the loop goes after the body for candidate i
AfterAttempt(c) ==
  IF call[c].i < Len(ports) THEN "recheck"
  ELSE IF call[c].phase = "real" THEN "after_real" ELSE "after_temp"

\* (mutant) the failed process is left running
IssueKillNone(ps, pid) == ps

\* taskkill /PID pid /T /F through _run_quiet and, when that raises,
\* proc.terminate(), whose own failure is swallowed: one kill is issued to
\* the process whichever branch runs
IssueKill(ps, pid) == [ps EXCEPT ![pid].kills = @ + 1]

\* line 162-169 and 185-192
KillFailed(c) ==
  /\ call[c].pc = "kill"
  /\ procs' = IssueKill(procs, call[c].proc)
  /\ call' = [call EXCEPT ![c].last_error = LastError(c),
                          ![c].pc = AfterAttempt(c),
                          ![c].i = IF @ < Len(ports) THEN @ + 1 ELSE @]
  /\ UNCHANGED <<args, body, live, tempCreated, rmtreeCalled>>

\* (mutant) the message names the preferred port only
StartFailedOnePort(c) ==
  [type |-> "RuntimeError", ports |-> <<port>>,
   last_error |-> call[c].last_error, msg |-> <<>>]

\* the RuntimeError of line 195-199
StartFailed(c) ==
  [type |-> "RuntimeError", ports |-> ports,
   last_error |-> call[c].last_error, msg |-> <<>>]

\* line 171-172, or line 195 when the caller pinned a profile directory
AfterReal(c) ==
  /\ call[c].pc = "after_real"
  /\ \/ /\ user_data_dir = None
        /\ tempCreated' = tempCreated \cup {MkDTemp(c)}
        /\ call' = [call EXCEPT ![c].temp_udd = MkDTemp(c),
                                ![c].phase = "temp", ![c].i = 1,
                                ![c].pc = "recheck"]
        /\ UNCHANGED live
     \/ /\ user_data_dir # None
        /\ Raise(c, StartFailed(c))
        /\ UNCHANGED tempCreated
  /\ UNCHANGED <<args, body, procs, rmtreeCalled>>

\* line 193-199
AfterTemp(c) ==
  /\ call[c].pc = "after_temp"
  /\ rmtreeCalled' = rmtreeCalled \cup {call[c].temp_udd}
  /\ Raise(c, StartFailed(c))
  /\ UNCHANGED <<args, body, procs, tempCreated>>

(***************************************************************************)
(* The part of a request between the launcher and the protocol dialogue    *)
(* (line 239-247 and 363-371).                                             *)
(***************************************************************************)
\* (mutant) the exception leaves the request without the finally clause
FailNoTeardown(c, type) ==
  call' = [call EXCEPT ![c].exc = [NoError EXCEPT !.type = type],
                       ![c].pc = "done"]

\* an exception inside the outer try block: the finally clause runs next
Fail(c, type) ==
  call' = [call EXCEPT ![c].exc = [NoError EXCEPT !.type = type],
                       ![c].pc = "stop"]

\* _http_json(/json/list) raises, or the list holds no page target
TargetsFail(c) ==
  /\ call[c].pc = "targets"
  /\ \/ Fail(c, "URLError")
     \/ Fail(c, "NoPageTargets")
  /\ UNCHANGED <<args, body, live, procs, tempCreated, rmtreeCalled>>

\* a page target with a webSocketDebuggerUrl is chosen
TargetsOk(c) ==
  /\ call[c].pc = "targets"
  /\ call' = [call EXCEPT ![c].pc = "connect"]
  /\ UNCHANGED <<args, body, live, procs, tempCreated, rmtreeCalled>>

\* create_connection(ws_url, timeout=10) raises: no socket was opened, the
\* inner try block is not entered
ConnectFail(c) ==
  /\ call[c].pc = "connect"
  /\ Fail(c, "ConnectError")
  /\ UNCHANGED <<args, body, live, procs, tempCreated, rmtreeCalled>>

\* create_connection(ws_url, timeout=10) returns the socket
ConnectOk(c) ==
  /\ call[c].pc = "connect"
  /\ call' = [call EXCEPT ![c].ws = "open", ![c].pc = "setup"]
  /\ UNCHANGED <<args, body, live, procs, tempCreated, rmtreeCalled>>

(***************************************************************************)
(* The protocol client (line 249-276 and 373-389).                         *)
(***************************************************************************)
\* (mutant) the exception leaves the inner try block without ws.close()
FailInnerNoClose(c, type, m) ==
  call' = [call EXCEPT ![c].exc = [NoError EXCEPT !.type = type, !.msg = m],
                       ![c].pc = "stop"]

\* an exception inside the inner try block: ws.close() runs next
FailInner(c, type, m) ==
  call' = [call EXCEPT ![c].exc = [NoError EXCEPT !.type = type, !.msg = m],
                       ![c].pc = "closews"]

NoFrame ==
  [kind |-> "none", id |-> 0, method |-> None, requestId |-> "",
   url |-> None, mime |-> <<>>, body |-> None, b64 |-> FALSE,
   cookies |-> <<>>]

\* an incoming event {method, params}
Event(method, requestId, url, mime) ==
  [NoFrame EXCEPT !.kind = "event", !.method = method,
                  !.requestId = requestId, !.url = url, !.mime = mime]

\* an incoming reply {id, result}
Reply(id, b, b64, cookies) ==
  [NoFrame EXCEPT !.kind = "reply", !.id = id, !.body = b, !.b64 = b64,
                  !.cookies = cookies]

\* a command as send() serialises it
Command(id, method, requestId) ==
  [id |-> id, method |-> method, requestId |-> requestId]

\* (mutant) the counter is raised once for a batch of commands, which all
\* go out with the same id
SendAllOneId(ids, log, methods) ==
  [id |-> ids + 1,
   log |-> log \o [k \in 1 .. Len(methods) |->
                     Command(ids + 1, methods[k][1], methods[k][2])]]

\* send(): msg_id += 1, then the payload goes out with that id
SendAll(ids, log, methods) ==
  [id |-> ids + Len(methods),
   log |-> log \o [k \in 1 .. Len(methods) |->
                     Command(ids + k, methods[k][1], methods[k][2])]]

\* (mutant) the loops give up one tick early
ExpiredEarly(t, d) == ~(t + 1 < d)

\* the loop conditions "while time.time() < deadline"
Expired(t, d) == ~(t < d)

Max(a, b) == IF a > b THEN a ELSE b
Min(a, b) == IF a < b THEN a ELSE b

(***************************************************************************)
(* fetch_douyin_detail_json_via_cdp (line 391-452).  Its clock counts      *)
(* tenths of a second.                                                     *)
(***************************************************************************)
\* URLs are kept parsed: the path as its segments ("/a/b/" is <<"a", "b",
\* "">>) and the query string.
DetailSegments == <<"aweme", "v1", "web", "aweme", "detail">>
UrlDetail == [path |-> DetailSegments \o <<"">>, query |-> "aweme_id=1"]
UrlDetailSub == [path |-> DetailSegments \o <<"x">>, query |-> ""]
UrlDetailBare == [path |-> DetailSegments, query |-> ""]
UrlPost ==
  [path |-> <<"aweme", "v1", "web", "aweme", "post", "">>,
   query |-> "next=/aweme/v1/web/aweme/detail/"]
Urls == {UrlDetail, UrlDetailSub, UrlDetailBare, UrlPost}

\* urllib.parse.urlparse(resp_url).path
UrlPath(u) == u.path

\* path.startswith("/aweme/v1/web/aweme/detail/"): the five segments and
\* the slash after them
IsDetail(path) ==
  /\ Len(path) > Len(DetailSegments)
  /\ SubSeq(path, 1, Len(DetailSegments)) = DetailSegments

\* mime types are kept as their tokens
MimeJson == <<"application", "/", "json">>
MimeJsonUpper == <<"Application", "/", "JSON">>
MimePlain == <<"text", "/", "plain">>
MimeHtml == <<"text", "/", "html">>
MimeMissing == <<>>
Mimes == {MimeJson, MimeJsonUpper, MimePlain, MimeHtml, MimeMissing}

\* str.lower() on one token
LowerToken(t) ==
  IF t = "Application" THEN "application"
  ELSE IF t = "JSON" THEN "json"
  ELSE t

\* (resp.get("mimeType") or "").lower()
Lower(m) == [k \in 1 .. Len(m) |-> LowerToken(m[k])]

\* sub in text, on token sequences
Contains(text, sub) ==
  \E k \in 0 .. (Len(text) - Len(sub)) :
    SubSeq(text, k + 1, k + Len(sub)) = sub

\* (mutant) the content type is not looked at
MimeAcceptedAny(mime) == TRUE

\* "json" in mime or "application/json" in mime or "text/plain" in mime
MimeAccepted(mime) ==
  \/ Contains(mime, <<"json">>)
  \/ Contains(mime, <<"application", "/", "json">>)
  \/ Contains(mime, <<"text", "/", "plain">>)

RequestIds == {"r1", "r2"}

\* (mutant) every response with a request id is recorded
RecordAll(cands, f) ==
  IF f.requestId = "" THEN cands
  ELSE [r \in DOMAIN cands \cup {f.requestId} |->
          IF r = f.requestId THEN f.url ELSE cands[r]]

\* line 407-422: what a Network.responseReceived frame does to candidates
Record(cands, f) ==
  IF f.requestId = "" THEN cands
  ELSE IF IsDetail(UrlPath(f.url)) /\ MimeAccepted(Lower(f.mime))
    THEN [r \in DOMAIN cands \cup {f.requestId} |->
            IF r = f.requestId THEN f.url ELSE cands[r]]
    ELSE cands

\* the bodies getResponseBody can come back with: a JSON object, a JSON
\* object that already has the key __cdp_captured_url, a JSON value that
\* is no object, and text that is no JSON
Bodies == {"object", "object_marked", "array", "html"}

\* the value of the key __cdp_captured_url in a returned value: absent,
\* or what the body itself held under that key
NoMarker == [path |-> <<>>, query |-> ""]
BodyMarker == [path |-> <<"from", "body">>, query |-> ""]

\* (mutant) no body parses
ParsedFails(b, url) == [ok |-> FALSE, json |-> None, marker |-> NoMarker]

\* json.loads(body), with the marker of line 445-446; FALSE when it raises
Parsed(b, url) ==
  IF b = "object" THEN [ok |-> TRUE, json |-> b, marker |-> url]
  ELSE IF b = "object_marked"
    THEN [ok |-> TRUE, json |-> b, marker |-> BodyMarker]
  ELSE IF b = "array" THEN [ok |-> TRUE, json |-> b, marker |-> NoMarker]
  ELSE [ok |-> FALSE, json |-> None, marker |-> NoMarker]

NoReturn == [ok |-> FALSE, json |-> None, marker |-> NoMarker]

\* every Network.responseReceived frame of the model
ResponseFrames ==
  {Event("Network.responseReceived", r, u, m) :
     r \in RequestIds \cup {""}, u \in Urls, m \in Mimes}

\* the frames a browser sends while the capture driver of a whole request
\* listens: responses of three URLs and two content types, load reports,
\* another event, and replies to the commands sent so far
FetchFrames ==
  {Event("Network.responseReceived", r, u, m) :
     r \in RequestIds \cup {""}, u \in {UrlDetail, UrlDetailSub, UrlPost},
     m \in {MimeJson, MimeHtml}}
  \cup {Event("Network.loadingFinished", r, None, <<>>) : r \in RequestIds}
  \cup {Event("Page.loadEventFired", "", None, <<>>)}
  \cup {Reply(i, b, FALSE, <<>>) : i \in 1 .. msg_id, b \in Bodies}

\* the getResponseBody commands sent so far
BodyRequests == SelectSeq(sent, LAMBDA m : m.method = "Network.getResponseBody")

\* how long a ws.recv() with socket timeout t takes: the frame is there at
\* once (one tick), or it comes (or the timeout strikes) at the end of t
RecvDelays(t) == {1, t}

\* recv_obj: timeout = max(0.1, min(1.0, deadline - time.time()))
RecvTimeout(t, d) == Max(MinRecvTimeout, Min(MaxRecvTimeout, d - t))

\* the path the TimeoutError of line 452 names
TimeoutPath == DetailSegments \o <<"">>

\* line 391-397: the three commands, then the deadline
FetchSetup(c) ==
  /\ call[c].pc = "setup"
  /\ op = "fetch"
  /\ \/ \* ws.send raises
        /\ FailInner(c, "WebSocketException", <<>>)
        /\ UNCHANGED <<msg_id, sent, now, deadline>>
     \/ /\ LET out == SendAll(msg_id, sent,
                        <<<<"Page.enable", "">>, <<"Network.enable", "">>,
                          <<"Page.navigate", "">>>>)
           IN  msg_id' = out.id /\ sent' = out.log
        /\ now' = 0
        /\ deadline' = FetchTimeout
        /\ call' = [call EXCEPT ![c].pc = "scan"]
  /\ UNCHANGED <<args, live, procs, tempCreated, rmtreeCalled, op,
                 candidates, cur, frame, ret, out_file>>

\* line 398-402 and 452: the loop test, and a recv_obj that raises
ScanIdle(c) ==
  /\ call[c].pc = "scan"
  /\ \/ /\ Expired(now, deadline)
        /\ FailInner(c, "TimeoutError", TimeoutPath)
        /\ UNCHANGED now
     \/ /\ ~Expired(now, deadline)
        /\ \E dt \in RecvDelays(RecvTimeout(now, deadline)) : now' = now + dt
        /\ UNCHANGED call
  /\ UNCHANGED <<args, live, procs, tempCreated, rmtreeCalled, op, deadline,
                 msg_id, sent, candidates, cur, frame, ret, out_file>>

\* line 403-427: what the scan loop does with frame f, read after dt
ScanRead(c, f, dt) ==
  /\ (/\ f.method = "Network.loadingFinished"
      /\ f.requestId \in DOMAIN candidates)
       => Len(BodyRequests) < MaxBodyRequests
  /\ now' = now + dt
  /\ candidates' = IF f.method = "Network.responseReceived"
                     THEN Record(candidates, f) ELSE candidates
  /\ IF /\ f.method = "Network.loadingFinished"
        /\ f.requestId \in DOMAIN candidates
       THEN \/ /\ LET out == SendAll(msg_id, sent,
                                <<<<"Network.getResponseBody",
                                    f.requestId>>>>)
                  IN  msg_id' = out.id /\ sent' = out.log
               /\ cur' = [req_id |-> f.requestId,
                          body_id |-> msg_id + 1]
               /\ call' = [call EXCEPT ![c].pc = "body"]
            \/ \* ws.send raises after msg_id += 1
               /\ msg_id' = msg_id + 1
               /\ FailInner(c, "WebSocketException", <<>>)
               /\ UNCHANGED <<sent, cur>>
       ELSE UNCHANGED <<msg_id, sent, cur, call>>
  /\ UNCHANGED <<args, live, procs, tempCreated, rmtreeCalled, op, deadline,
                 ret, out_file>>

\* line 398-427: one frame read by the scan loop
ScanFrame(c) ==
  /\ call[c].pc = "scan"
  /\ call[c].ws = "open"
  /\ ~Expired(now, deadline)
  /\ \E dt \in RecvDelays(RecvTimeout(now, deadline)), f \in FetchFrames :
       ScanRead(c, f, dt)
  /\ UNCHANGED frame

\* the same read, with the frame kept for inspection
CaptureFrame(c) ==
  /\ call[c].pc = "scan"
  /\ call[c].ws = "open"
  /\ ~Expired(now, deadline)
  /\ \E dt \in RecvDelays(RecvTimeout(now, deadline)), f \in FetchFrames :
       /\ ScanRead(c, f, dt)
       /\ frame' = f

\* line 429-435 and 452: the inner loop's test, a recv_obj that raises and
\* a frame that is not the awaited reply
BodyIdle(c) ==
  /\ call[c].pc = "body"
  /\ \/ /\ Expired(now, deadline)
        /\ FailInner(c, "TimeoutError", TimeoutPath)
        /\ UNCHANGED now
     \/ /\ ~Expired(now, deadline)
        /\ \E dt \in RecvDelays(RecvTimeout(now, deadline)) : now' = now + dt
        /\ UNCHANGED call
     \/ /\ ~Expired(now, deadline)
        /\ call[c].ws = "open"
        /\ \E dt \in RecvDelays(RecvTimeout(now, deadline)),
              f \in FetchFrames :
             /\ f.id # cur.body_id
             /\ now' = now + dt
        /\ UNCHANGED call
  /\ UNCHANGED <<args, live, procs, tempCreated, rmtreeCalled, op, deadline,
                 msg_id, sent, candidates, cur, frame, ret, out_file>>

\* line 436-450: the reply to getResponseBody
BodyReply(c) ==
  /\ call[c].pc = "body"
  /\ call[c].ws = "open"
  /\ ~Expired(now, deadline)
  /\ \E dt \in RecvDelays(RecvTimeout(now, deadline)), f \in FetchFrames :
       /\ f.id = cur.body_id
       /\ now' = now + dt
       /\ frame' = f
       /\ LET obj == Parsed(f.body, candidates[cur.req_id]) IN
            IF obj.ok
              THEN /\ ret' = obj
                   /\ call' = [call EXCEPT ![c].pc = "closews"]
              ELSE /\ ret' = ret
                   /\ call' = [call EXCEPT ![c].pc = "scan"]
  /\ UNCHANGED <<args, live, procs, tempCreated, rmtreeCalled, op, deadline,
                 msg_id, sent, candidates, cur, out_file>>

(***************************************************************************)
(* export_netscape_cookies_via_cdp (line 278-329).  Its clock counts units *)
(* of five seconds.                                                        *)
(***************************************************************************)
\* Text is kept as a sequence of tokens; the tab is a token of its own.
Tab == "\t"

\* cookies as Network.getAllCookies reports them: the expiry is absent, a
\* float (integer part and first decimal) or a string that is no number;
\* session is the protocol's flag for a cookie without an expiry date
CookieA ==
  [domain |-> <<".", "douyin.com">>, name |-> <<"sid">>, value |-> <<"v1">>,
   path |-> <<"/">>, secure |-> TRUE, session |-> FALSE,
   expires |-> [kind |-> "float", int |-> 1700, frac |-> 5]]
CookieB ==
  [domain |-> <<"www", ".", "douyin.com">>, name |-> <<"ttwid">>,
   value |-> <<"v2">>, path |-> <<"/", "x">>, secure |-> FALSE,
   session |-> TRUE,
   expires |-> [kind |-> "absent", int |-> 0, frac |-> 0]]
\* a session cookie: the protocol reports its expiry as -1
CookieC ==
  [domain |-> <<"douyin.com">>, name |-> <<"s">>, value |-> <<"v3">>,
   path |-> <<"/">>, secure |-> FALSE, session |-> TRUE,
   expires |-> [kind |-> "float", int |-> 0 - 1, frac |-> 0]]
CookieD ==
  [domain |-> <<".", "iesdouyin.com">>, name |-> <<"d">>, value |-> <<>>,
   path |-> <<"/">>, secure |-> TRUE, session |-> FALSE,
   expires |-> [kind |-> "float", int |-> 0, frac |-> 0]]
CookieE ==
  [domain |-> <<"douyin.com">>, name |-> <<"e">>, value |-> <<"v5">>,
   path |-> <<"/">>, secure |-> FALSE, session |-> FALSE,
   expires |-> [kind |-> "str", int |-> 0, frac |-> 0]]
\* a cookie whose value holds a tab
CookieF ==
  [domain |-> <<"douyin.com">>, name |-> <<"f">>,
   value |-> <<"a", Tab, "b">>, path |-> <<"/">>, secure |-> FALSE,
   session |-> FALSE,
   expires |-> [kind |-> "float", int |-> 1800, frac |-> 0]]
Cookies == {CookieA, CookieB, CookieC, CookieD, CookieE, CookieF}

\* the cookie lists a whole export is followed with
CookieLists == {<<>>, <<CookieA, CookieB>>, <<CookieC>>}

\* line 306-313: "if not expires" and int(float(expires))
ExpiresI(e) ==
  IF e.kind = "absent" THEN 0
  ELSE IF e.kind = "float"
    THEN (IF e.int = 0 /\ e.frac = 0 THEN 0 ELSE e.int)
  ELSE 0

\* domain.startswith(".")
StartsWithDot(d) == d # <<>> /\ d[1] = "."

BoolText(b) == IF b THEN <<"TRUE">> ELSE <<"FALSE">>

Digit(d) == <<"0", "1", "2", "3", "4", "5", "6", "7", "8", "9">>[d + 1]

RECURSIVE StrNat(_)
StrNat(n) ==
  IF n < 10 THEN <<Digit(n)>>
  ELSE Append(StrNat(n \div 10), Digit(n % 10))

\* str(expires_i)
Str(n) == IF n < 0 THEN <<"-">> \o StrNat(0 - n) ELSE StrNat(n)

\* "\t".join(fields)
RECURSIVE JoinTab(_)
JoinTab(fields) ==
  IF fields = <<>> THEN <<>>
  ELSE IF Len(fields) = 1 THEN fields[1]
  ELSE fields[1] \o <<Tab>> \o JoinTab(Tail(fields))

\* line 316-329: one record, its fields joined in the order of the code
NetscapeLine(ck) ==
  JoinTab(<<ck.domain, BoolText(StartsWithDot(ck.domain)), ck.path,
            BoolText(ck.secure), Str(ExpiresI(ck.expires)), ck.name,
            ck.value>>)

\* no cookie file
NoFile == <<>>

\* line 297-298: the two comment lines and the blank line
FileHeader ==
  <<<<"#", " Netscape HTTP Cookie File">>,
    <<"#", " Exported via CDP (DevTools Protocol)">>, <<>>>>

\* line 296-329: the lines of the file the exporter writes for a list of
\* cookies
CookieFile(cookies) ==
  FileHeader \o [k \in 1 .. Len(cookies) |-> NetscapeLine(cookies[k])]

\* the frames a browser can send while the exporter listens
ExportFrames ==
  {Event("Page.loadEventFired", "", None, <<>>),
   Event("Network.responseReceived", "r1", UrlDetail, MimeJson)}
  \cup {Reply(i, None, FALSE, ck) : i \in 1 .. msg_id, ck \in CookieLists}

\* (mutant) recv_until waits for the id of the command before the last
TargetIdPrevious == msg_id - 1

\* the id recv_until waits for: the one the last send returned (nav_id at
\* line 282, ck_id at line 292)
TargetId == msg_id

\* line 278-282: the three commands; recv_until(nav_id) starts
ExportSetup(c) ==
  /\ call[c].pc = "setup"
  /\ op = "export"
  /\ \/ \* ws.send raises
        /\ FailInner(c, "WebSocketException", <<>>)
        /\ UNCHANGED <<msg_id, sent, now, deadline>>
     \/ /\ LET out == SendAll(msg_id, sent,
                        <<<<"Page.enable", "">>, <<"Network.enable", "">>,
                          <<"Page.navigate", "">>>>)
           IN  msg_id' = out.id /\ sent' = out.log
        /\ now' = 0
        /\ deadline' = RecvUntilTimeout
        /\ call' = [call EXCEPT ![c].pc = "nav_reply"]
  /\ UNCHANGED <<args, live, procs, tempCreated, rmtreeCalled, op,
                 candidates, cur, frame, ret, out_file>>

\* (mutant) the command is sent again when the first send is not answered
\* at once
AskCookiesAgain(c) ==
  /\ LET out == SendAll(msg_id, sent,
                        <<<<"Network.getAllCookies", "">>,
                          <<"Network.getAllCookies", "">>>>)
     IN  msg_id' = out.id /\ sent' = out.log
  /\ now' = 0
  /\ deadline' = RecvUntilTimeout
  /\ call' = [call EXCEPT ![c].pc = "cookies_reply"]

\* line 289-292: time.sleep(1.0), send("Network.getAllCookies");
\* recv_until(ck_id) starts
AskCookies(c) ==
  \/ /\ LET out == SendAll(msg_id, sent, <<<<"Network.getAllCookies", "">>>>)
        IN  msg_id' = out.id /\ sent' = out.log
     /\ now' = 0
     /\ deadline' = RecvUntilTimeout
     /\ call' = [call EXCEPT ![c].pc = "cookies_reply"]
  \/ \* ws.send raises after msg_id += 1
     /\ msg_id' = msg_id + 1
     /\ FailInner(c, "WebSocketException", <<>>)
     /\ UNCHANGED <<sent, now, deadline>>

\* line 260-267: recv_until's loop test, and a ws.recv() that raises once
\* the socket timeout of line 247 has passed without a frame
RecvUntilIdle(c) ==
  /\ call[c].pc \in {"nav_reply", "cookies_reply"}
  /\ \/ /\ Expired(now, deadline)
        /\ FailInner(c, "TimeoutError", <<"response", TargetId>>)
        /\ UNCHANGED now
     \/ /\ ~Expired(now, deadline)
        /\ now' = now + SockTimeout
        /\ FailInner(c, "WebSocketTimeoutException", <<>>)
  /\ UNCHANGED <<args, live, procs, tempCreated, rmtreeCalled, op, deadline,
                 msg_id, sent, candidates, cur, frame, ret, out_file>>

\* line 263-266: recv_until reads frame f after dt, and what follows its
\* return (line 283-285 after the navigate reply, line 293-329 after the
\* cookies)
RecvUntilRead(c, f, dt) ==
  /\ IF f.id # TargetId
       THEN /\ now' = now + dt
            /\ UNCHANGED <<call, deadline, frame, out_file>>
     ELSE IF call[c].pc = "nav_reply"
       THEN /\ now' = 0
            /\ deadline' = WaitEventTimeout
            /\ frame' = f
            /\ call' = [call EXCEPT ![c].pc = "load_event"]
            /\ UNCHANGED out_file
       ELSE /\ now' = now + dt
            /\ frame' = f
            /\ UNCHANGED deadline
            /\ \/ \* mkdir or open raises
                  /\ FailInner(c, "OSError", <<>>)
                  /\ UNCHANGED out_file
               \/ /\ out_file' = CookieFile(f.cookies)
                  /\ call' = [call EXCEPT ![c].pc = "closews"]
  /\ UNCHANGED <<fixed, live, procs, tempCreated, rmtreeCalled, op,
                 msg_id, sent, candidates, cur, ret>>

\* one frame read by recv_until
RecvUntilFrame(c) ==
  /\ call[c].pc \in {"nav_reply", "cookies_reply"}
  /\ ~Expired(now, deadline)
  /\ \E dt \in RecvDelays(SockTimeout), f \in ExportFrames :
       RecvUntilRead(c, f, dt)
  /\ UNCHANGED dropped

\* the same read, with the record of the events it passes over
RecvUntilSeen(c) ==
  /\ call[c].pc \in {"nav_reply", "cookies_reply"}
  /\ ~Expired(now, deadline)
  /\ \E dt \in RecvDelays(SockTimeout), f \in ExportFrames :
       /\ RecvUntilRead(c, f, dt)
       /\ dropped' = IF f.kind = "event" /\ f.id # TargetId
                       THEN dropped \cup {f.method} ELSE dropped

\* line 269-276 and 284-288: wait_event's loop test, whose TimeoutError the
\* exporter swallows, and a ws.recv() that raises
WaitEventIdle(c) ==
  /\ call[c].pc = "load_event"
  /\ \/ /\ Expired(now, deadline)
        /\ AskCookies(c)
     \/ /\ ~Expired(now, deadline)
        /\ now' = now + SockTimeout
        /\ FailInner(c, "WebSocketTimeoutException", <<>>)
        /\ UNCHANGED <<deadline, msg_id, sent>>
  /\ UNCHANGED <<args, live, procs, tempCreated, rmtreeCalled, op,
                 candidates, cur, frame, ret, out_file>>

\* line 272-275: one frame read by wait_event
WaitEventFrame(c) ==
  /\ call[c].pc = "load_event"
  /\ ~Expired(now, deadline)
  /\ \E dt \in RecvDelays(SockTimeout), f \in ExportFrames :
       IF f.method = "Page.loadEventFired"
         THEN AskCookies(c)
         ELSE /\ now' = now + dt
              /\ UNCHANGED <<call, deadline, msg_id, sent>>
  /\ UNCHANGED <<args, live, procs, tempCreated, rmtreeCalled, op,
                 candidates, cur, frame, ret, out_file>>

\* line 330-334 and 453-457: ws.close(), whose failure is swallowed
CloseWs(c) ==
  /\ call[c].pc = "closews"
  /\ call' = [call EXCEPT ![c].ws = "closed", ![c].pc = "stop"]
  /\ UNCHANGED <<args, body, live, procs, tempCreated, rmtreeCalled>>

(***************************************************************************)
(* stop_cdp_browser                                                        *)
(***************************************************************************)
\* (mutant) the profile directory the browser ran on is removed
TeardownDirsProfile(s) == {IF s.temp # None THEN s.temp ELSE BaseUdd}

\* line 213-214: what shutil.rmtree(..., ignore_errors=True) is called on
TeardownDirs(s) == IF s.temp # None THEN {s.temp} ELSE {}

\* line 202-214
StopCdpBrowser(c) ==
  /\ call[c].pc = "stop"
  /\ LET s == call[c].session IN
       /\ procs' = IF s.proc # NoProc THEN IssueKill(procs, s.proc)
                    ELSE procs
       /\ rmtreeCalled' = rmtreeCalled \cup TeardownDirs(s)
  /\ call' = [call EXCEPT ![c].stops = @ + 1, ![c].pc = "done"]
  /\ UNCHANGED <<args, body, live, tempCreated>>

(***************************************************************************)
(* The launcher and the teardown, for every choice of arguments, of        *)
(* installed executables and of endpoints coming and going.  The request   *)
(* around them is followed as far as the socket connect.                   *)
(***************************************************************************)
ParamsInit ==
  /\ browser \in Browsers
  /\ port \in PreferredPorts
  /\ user_data_dir \in {None, "custom_udd"}
  /\ headless \in BOOLEAN
  /\ installed \in {S \in SUBSET ExePaths : Cardinality(S) <= MaxInstalled}

StartCall == [IdleCall EXCEPT !.pc = "check"]

\* no protocol dialogue has begun
BodyInit ==
  /\ op \in {"export", "fetch"}
  /\ now = 0
  /\ deadline = 0
  /\ msg_id = 0
  /\ sent = <<>>
  /\ candidates = <<>>
  /\ cur = [req_id |-> "", body_id |-> 0]
  /\ frame = NoFrame
  /\ ret = NoReturn
  /\ out_file = NoFile
  /\ dropped = {}
  /\ NoText
  /\ NoGui
  /\ NoDownload

InitLaunch ==
  /\ ParamsInit
  /\ BodyInit
  /\ live \in SUBSET Probed
  /\ procs = <<>>
  /\ tempCreated = {}
  /\ rmtreeCalled = {}
  /\ call = [c \in Callers |-> IF c = 1 THEN StartCall ELSE IdleCall]

Launcher(c) ==
  \/ CheckExisting(c)
  \/ Recheck(c)
  \/ Spawn(c)
  \/ WaitPort(c)
  \/ KillFailed(c)
  \/ AfterReal(c)
  \/ AfterTemp(c)

Env == \E p \in Probed : EnvUp(p) \/ EnvDown(p)

NextLaunch ==
  \/ Env
  \/ \E c \in Callers :
       \/ Launcher(c)
       \/ TargetsFail(c)
       \/ TargetsOk(c)
       \/ ConnectFail(c)
       \/ StopCdpBrowser(c)

SpecLaunch == InitLaunch /\ [][NextLaunch]_vars

(***************************************************************************)
(* One whole request, from the call of start_cdp_browser to the return or  *)
(* the exception, for the default profile directory and one preferred      *)
(* port.                                                                   *)
(***************************************************************************)
Init ==
  /\ browser = "edge"
  /\ port = RangeLo
  /\ user_data_dir = None
  /\ headless = FALSE
  /\ installed = {"edge_pf"}
  /\ BodyInit
  /\ live \in SUBSET Probed
  /\ procs = <<>>
  /\ tempCreated = {}
  /\ rmtreeCalled = {}
  /\ call = [c \in Callers |-> IF c = 1 THEN StartCall ELSE IdleCall]

Request(c) ==
  \/ Launcher(c)
  \/ TargetsFail(c)
  \/ TargetsOk(c)
  \/ ConnectFail(c)
  \/ ConnectOk(c)
  \/ ExportSetup(c)
  \/ RecvUntilIdle(c)
  \/ RecvUntilFrame(c)
  \/ WaitEventIdle(c)
  \/ WaitEventFrame(c)
  \/ FetchSetup(c)
  \/ ScanIdle(c)
  \/ ScanFrame(c)
  \/ BodyIdle(c)
  \/ BodyReply(c)
  \/ CloseWs(c)
  \/ StopCdpBrowser(c)

Next ==
  \/ Env
  \/ \E c \in Callers : Request(c)

Spec == Init /\ [][Next]_vars

\* the thread of a request keeps running until the request has returned or
\* raised
FairSpec == Spec /\ \A c \in Callers : WF_vars(Request(c))

(***************************************************************************)
(* The matching logic of the capture driver on its own: the scan loop of a *)
(* capture that has sent its three commands reads Network.responseReceived *)
(* frames of every URL, content type and request id.                       *)
(***************************************************************************)
\* the values the candidates dict can have
CandidateMaps ==
  UNION {[D -> {UrlDetail, UrlDetailSub}] : D \in SUBSET RequestIds}

InitMatch ==
  /\ browser = "edge"
  /\ port = DefaultPort
  /\ user_data_dir = None
  /\ headless = FALSE
  /\ installed = {"edge_pf"}
  /\ live = {}
  /\ procs = <<>>
  /\ tempCreated = {}
  /\ rmtreeCalled = {}
  /\ call = [c \in Callers |->
              IF c = 1
                THEN [IdleCall EXCEPT
                        !.pc = "scan", !.ws = "open",
                        !.session = CdpSession(port, NoProc, None)]
                ELSE IdleCall]
  /\ op = "fetch"
  /\ now = 0
  /\ deadline = FetchTimeout
  /\ msg_id = 3
  /\ sent = SendAll(0, <<>>,
                    <<<<"Page.enable", "">>, <<"Network.enable", "">>,
                      <<"Page.navigate", "">>>>).log
  /\ candidates \in CandidateMaps
  /\ cur = [req_id |-> "", body_id |-> 0]
  /\ frame = NoFrame
  /\ ret = NoReturn
  /\ out_file = NoFile
  /\ dropped = {}
  /\ NoText
  /\ NoGui
  /\ NoDownload

\* line 407-422 applied to one frame
ResponseReceived(c) ==
  /\ call[c].pc = "scan"
  /\ \E f \in ResponseFrames :
       /\ frame' = f
       /\ candidates' = Record(candidates, f)
  /\ UNCHANGED <<args, live, procs, tempCreated, rmtreeCalled, call, op, now,
                 deadline, msg_id, sent, cur, ret, out_file>>

NextMatch == \E c \in Callers : ResponseReceived(c)

SpecMatch == InitMatch /\ [][NextMatch]_vars

(***************************************************************************)
(* Two requests started at the same time with the same arguments, as far   *)
(* as the end of their start_cdp_browser calls.                            *)
(***************************************************************************)
InitConc ==
  /\ browser = "edge"
  /\ port \in PreferredPorts
  /\ user_data_dir \in {None, "custom_udd"}
  /\ headless = FALSE
  /\ installed = {"edge_pf"}
  /\ BodyInit
  /\ op = "fetch"
  /\ live \in SUBSET Probed
  /\ procs = <<>>
  /\ tempCreated = {}
  /\ rmtreeCalled = {}
  /\ call = [c \in Callers |-> StartCall]

NextConc ==
  \/ Env
  \/ \E c \in Callers : Launcher(c)

SpecConc == InitConc /\ [][NextConc]_vars

(***************************************************************************)
(* Properties of the launcher and the teardown.                            *)
(***************************************************************************)
\* the processes a caller has spawned, and those among them that no kill
\* was issued to
SpawnedBy(c) == {pid \in DOMAIN procs : pid[1] = c}
Unkilled(c) == {pid \in SpawnedBy(c) : procs[pid].kills = 0}

\* start_cdp_browser returned a session to the caller, whose request has
\* not ended yet
Returned(c) == ~InLauncher(c) /\ call[c].pc \notin {"idle", "done"}

\* the caller takes the step that is stop_cdp_browser
StopStep(c) == call[c].pc = "stop" /\ call'[c].pc = "done"

\* the port probed at line 140 or at line 148/174
ProbePort(c) == IF call[c].pc = "check" THEN port ELSE CurPort(c)

\* C2: a probe of start_cdp_browser that finds the endpoint live (line 140,
\* 148, 174) ends the launcher at once with a session on that port whose
\* proc is None, and no process is spawned by that step; the session is
\* not changed afterwards, and stop_cdp_browser on a session whose proc is
\* None issues no kill.
C2_AttachWithoutSpawn ==
  [][\A c \in Callers :
       /\ (/\ call[c].pc \in {"check", "recheck"}
           /\ ProbePort(c) \in live
           /\ call'[c] # call[c])
            => /\ call'[c].pc = "targets"
               /\ call'[c].session.port = ProbePort(c)
               /\ call'[c].session.proc = NoProc
               /\ procs' = procs
       /\ Returned(c) => call'[c].session = call[c].session
       /\ (StopStep(c) /\ call[c].session.proc = NoProc) => procs' = procs
    ]_vars

\* C2 witness: a request has ended whose session was attached, in the
\* temp-profile phase, to an endpoint found live at a re-check
C2_Witness ==
  /\ call[1].pc = "done"
  /\ call[1].stops = 1
  /\ call[1].session.proc = NoProc
  /\ call[1].session.temp # None

\* C3: stop_cdp_browser calls rmtree on exactly the temporary directory the
\* caller's start_cdp_browser made (on nothing when it made none), and
\* neither the caller-supplied nor a default profile directory is ever
\* removed.
C3_RemovesOnlyTemp ==
  /\ [](rmtreeCalled \cap (RealDirs \cup {BaseUdd}) = {})
  /\ [][\A c \in Callers :
          StopStep(c) =>
            rmtreeCalled' = rmtreeCalled \cup ({MkDTemp(c)} \cap tempCreated)
       ]_vars

\* C3 witness: a teardown has removed the temporary directory of a session
C3_Witness ==
  /\ call[1].pc = "done"
  /\ call[1].stops = 1
  /\ MkDTemp(1) \in rmtreeCalled

\* C4: when a request has ended, rmtree has been called on the temporary
\* profile directory its start_cdp_browser made.
C4_TempDirRemoved ==
  \A c \in Callers :
    (call[c].pc = "done" /\ MkDTemp(c) \in tempCreated)
      => MkDTemp(c) \in rmtreeCalled

\* C5: of the processes one start_cdp_browser has spawned, at most one has
\* not been issued a kill: none when the next candidate is tried or the
\* launcher has raised, the process being waited for during a wait, and
\* the session's own process once the launcher has returned.
C5_OneUnkilled ==
  \A c \in Callers :
    /\ Cardinality(Unkilled(c)) <= 1
    /\ call[c].pc \in {"recheck", "spawn", "after_real", "after_temp"}
         => Unkilled(c) = {}
    /\ call[c].pc \in {"wait", "kill"} => Unkilled(c) = {call[c].proc}
    /\ Returned(c) /\ call[c].pc # "stop"
         => Unkilled(c) = {call[c].session.proc} \ {NoProc}
    /\ (call[c].pc = "done" /\ call[c].session = NoSession)
         => Unkilled(c) = {}

\* C5 witness: the launcher returned the process of a late attempt, after
\* killing those of the attempts before it
C5_Witness ==
  /\ Returned(1)
  /\ call[1].session.proc # NoProc
  /\ Cardinality(SpawnedBy(1)) >= 3

\* C6: a process spawned non-headless is the first spawn of its call, on
\* the preferred port with the real profile, and the caller asked for
\* non-headless; the first spawn of the real-profile phase runs in the
\* requested mode.
C6_OnlyFirstNonHeadless ==
  \A pid \in DOMAIN procs :
    /\ ~procs[pid].headless
         => /\ pid[2] = 1
            /\ procs[pid].phase = "real"
            /\ procs[pid].port = port
            /\ ~headless
    /\ (procs[pid].phase = "real" /\ procs[pid].i = 1)
         => procs[pid].headless = headless

\* C6 witness: a non-headless first attempt was followed by retries with
\* the real and with the temporary profile
C6_Witness ==
  /\ <<1, 1>> \in DOMAIN procs
  /\ ~procs[<<1, 1>>].headless
  /\ \E pid \in DOMAIN procs : procs[pid].phase = "temp"
  /\ \E pid \in DOMAIN procs : procs[pid].phase = "real" /\ pid[2] > 1

\* C7: two start_cdp_browser calls running at the same time never both
\* have a spawned browser that is bound to the same port and has not been
\* issued a kill.
C7_NoDoubleSpawn ==
  \A a, b \in DOMAIN procs :
    (a[1] # b[1] /\ procs[a].kills = 0 /\ procs[b].kills = 0)
      => procs[a].port # procs[b].port

(***************************************************************************)
(* Properties of a whole request.                                          *)
(***************************************************************************)
\* C1: a request calls stop_cdp_browser only as its last step, never more
\* than once, and when it has returned or raised it has called it exactly
\* once if start_cdp_browser returned a session and not at all if
\* start_cdp_browser raised.
C1_StopExactlyOnce ==
  \A c \in Callers :
    /\ call[c].stops <= 1
    /\ call[c].pc # "done" => call[c].stops = 0
    /\ call[c].pc = "done"
         => call[c].stops = (IF call[c].session # NoSession THEN 1 ELSE 0)

\* C1 witness: an export whose wait for the navigate reply ran into its
\* deadline has torn its session down
C1_Witness ==
  /\ op = "export"
  /\ call[1].pc = "done"
  /\ call[1].exc.type = "TimeoutError"
  /\ call[1].session.proc # NoProc
  /\ call[1].stops = 1
  /\ procs[call[1].session.proc].kills = 1

\* C8: every request that was started returns or raises, and no two spawns
\* of one start_cdp_browser call are for the same candidate port in the
\* same phase.
C8_Terminates ==
  /\ [](\A c \in Callers : \A a, b \in SpawnedBy(c) :
          a # b => <<procs[a].port, procs[a].phase>>
                     # <<procs[b].port, procs[b].phase>>)
  /\ \A c \in Callers : (call[c].pc # "idle") ~> (call[c].pc = "done")

\* C8 witness: a request has ended after its launcher spawned on every
\* candidate port in both phases and its capture ran into the deadline
C8_Witness ==
  /\ call[1].pc = "done"
  /\ Cardinality(SpawnedBy(1)) = 2 * Len(ports)
  /\ call[1].exc.type = "TimeoutError"

\* C9: a capture that has sent its commands and recorded no candidate ends
\* only with the TimeoutError that names the detail path, raised when the
\* clock has reached the deadline; and every capture that scans ends.
C9_TimeoutAtDeadline ==
  /\ [](\A c \in Callers :
          (/\ op = "fetch"
           /\ call[c].pc \in {"closews", "stop", "done"}
           /\ Len(sent) >= 3
           /\ candidates = <<>>)
            => /\ call[c].exc.type = "TimeoutError"
               /\ call[c].exc.msg = <<"aweme", "v1", "web", "aweme", "detail", "">>
               /\ now >= FetchTimeout
               /\ ret = NoReturn)
  /\ \A c \in Callers :
       (op = "fetch" /\ call[c].pc = "scan") ~> (call[c].pc = "done")

\* C9 witness: a capture without any candidate has raised its TimeoutError
C9_Witness ==
  /\ op = "fetch"
  /\ call[1].pc = "done"
  /\ candidates = <<>>
  /\ call[1].exc.type = "TimeoutError"
  /\ now >= FetchTimeout

\* the frames whose path begins with the detail path and whose content
\* type is JSON or plain text, listed one by one
PathAndTypeMatch(f) ==
  /\ f.url \in {UrlDetail, UrlDetailSub}
  /\ f.mime \in {MimeJson, MimeJsonUpper, MimePlain}

\* the candidates dict with the frame's request id mapped to its URL
Recorded(cands, f) ==
  [r \in DOMAIN cands \cup {f.requestId} |->
     IF r = f.requestId THEN f.url ELSE cands[r]]

C11_MissResumesScan ==
  [][\A c \in Callers :
       /\ (op = "fetch" /\ call[c].pc = "body" /\ frame' # frame)
            => IF frame'.body = "html"
                 THEN /\ call'[c].pc = "scan"
                      /\ call'[c].exc = NoError
                      /\ ret' = NoReturn
                      /\ candidates' = candidates
                 ELSE /\ call'[c].pc = "closews"
                      /\ call'[c].exc = NoError
                      /\ ret'.ok
                      /\ ret'.json = frame'.body
       /\ (op = "fetch" /\ call[c].pc = "scan" /\ call'[c].pc = "body")
            => /\ cur'.req_id \in DOMAIN candidates'
               /\ sent' = Append(sent, Command(msg_id + 1,
                                               "Network.getResponseBody",
                                               cur'.req_id))
    ]_vars

\* C11 witness: a capture has returned the body of a second request after
\* the body of a first one did not parse
C11_Witness ==
  /\ op = "fetch"
  /\ call[1].pc = "done"
  /\ ret.ok
  /\ ret.json = "object"
  /\ Len(BodyRequests) = 2
  /\ BodyRequests[1].requestId # BodyRequests[2].requestId

\* C12: a value returned by the capture carries the marker whose value is
\* the URL recorded for the captured request id.
C12_ReturnCarriesMarker ==
  ret.ok => ret.marker = candidates[cur.req_id]

\* C13: an export whose navigate reply has arrived does not end before it
\* has issued Network.getAllCookies, whether or not the load event arrives
\* (unless the socket refuses the command).
C13_LoadWaitNeverFails ==
  \A c \in Callers :
    (/\ op = "export"
     /\ frame.kind = "reply"
     /\ call[c].pc \in {"closews", "stop", "done"}
     /\ call[c].exc.type # "WebSocketException")
      => \E k \in 1 .. Len(sent) : sent[k].method = "Network.getAllCookies"

\* ---------------------------------------------------------------------
\* The cookie file alone: the exporter has sent Network.getAllCookies and
\* waits for its reply; the reply carries any list of at most MaxCookies
\* cookies, and the exporter writes the file.

MaxCookies == 3

CookieSeqs == UNION {[1 .. k -> Cookies] : k \in 0 .. MaxCookies}

InitCookies ==
  /\ browser = "edge"
  /\ port = DefaultPort
  /\ user_data_dir = None
  /\ headless = FALSE
  /\ installed = {"edge_pf"}
  /\ live = {}
  /\ procs = <<>>
  /\ tempCreated = {}
  /\ rmtreeCalled = {}
  /\ call = [c \in Callers |->
              IF c = 1
                THEN [IdleCall EXCEPT
                        !.pc = "cookies_reply", !.ws = "open",
                        !.session = CdpSession(port, NoProc, None)]
                ELSE IdleCall]
  /\ op = "export"
  /\ now = 0
  /\ deadline = RecvUntilTimeout
  /\ msg_id = 4
  /\ sent = SendAll(0, <<>>,
                    <<<<"Page.enable", "">>, <<"Network.enable", "">>,
                      <<"Page.navigate", "">>,
                      <<"Network.getAllCookies", "">>>>).log
  /\ candidates = <<>>
  /\ cur = [req_id |-> "", body_id |-> 0]
  /\ frame = NoFrame
  /\ ret = NoReturn
  /\ out_file = NoFile
  /\ dropped = {}
  /\ NoText
  /\ NoGui
  /\ NoDownload

\* line 291-329: the reply to getAllCookies arrives and the file is written
CookiesReply(c) ==
  /\ op = "export"
  /\ call[c].pc = "cookies_reply"
  /\ \E cookies \in CookieSeqs :
       /\ frame' = Reply(TargetId, None, FALSE, cookies)
       /\ out_file' = CookieFile(cookies)
  /\ now' = now + 1
  /\ call' = [call EXCEPT ![c].pc = "closews"]
  /\ UNCHANGED <<args, live, procs, tempCreated, rmtreeCalled, op, deadline,
                 msg_id, sent, candidates, cur, ret>>

NextCookies == \E c \in Callers : CookiesReply(c)

SpecCookies == InitCookies /\ [][NextCookies]_vars

\* the fields of a line of the file, split on tabs
RECURSIVE SplitTab(_)
SplitTab(line) ==
  LET tabs == {k \in 1 .. Len(line) : line[k] = Tab}
  IN  IF tabs = {} THEN <<line>>
      ELSE LET k == CHOOSE x \in tabs : \A y \in tabs : x <= y
           IN  <<SubSeq(line, 1, k - 1)>>
                 \o SplitTab(SubSeq(line, k + 1, Len(line)))

\* the record lines of the file: neither blank nor a comment
IsRecordLine(line) == line # <<>> /\ line[1] # "#"

\* the cookies the last reply carried
Exported == frame.cookies

\* C14: for every cookie of the reply the file holds, in the expiry field,
\* 0 when the cookie's expiry is missing, zero or no number, or when the
\* cookie is a session cookie, and the integer seconds otherwise; the
\* includeSubdomains field is TRUE exactly when the domain starts with a dot.
C14_ExpiryAndSubdomains ==
  out_file # NoFile =>
    \A k \in 1 .. Len(Exported) :
      LET ck     == Exported[k]
          fields == SplitTab(out_file[Len(FileHeader) + k])
          zero   == \/ ck.session
                    \/ ck.expires.kind \in {"absent", "str"}
                    \/ (ck.expires.int = 0 /\ ck.expires.frac = 0)
      IN  /\ Len(fields) >= 5
          /\ fields[5] = Str(IF zero THEN 0 ELSE ck.expires.int)
          /\ (fields[2] = <<"TRUE">>) <=> (ck.domain # <<>> /\ ck.domain[1] = ".")

\* the record a cookie is expected to come back as, in the field order of
\* the file
Expected(ck) ==
  <<ck.domain, BoolText(StartsWithDot(ck.domain)), ck.path,
    BoolText(ck.secure), Str(ExpiresI(ck.expires)), ck.name, ck.value>>

\* the file read back: comment and blank lines skipped, each other line
\* split on tabs
Reparse(file) ==
  LET lines == SelectSeq(file, IsRecordLine)
  IN  [k \in 1 .. Len(lines) |-> SplitTab(lines[k])]

\* C15: the exported file, read back, yields one record per cookie of the
\* reply, in order, each with the cookie's seven fields.
C15_RoundTrip ==
  out_file # NoFile =>
    Reparse(out_file) = [k \in 1 .. Len(Exported) |-> Expected(Exported[k])]

\* ---------------------------------------------------------------------
\* The launcher's failures and the candidate list.

\* the profile phases a call goes through when no attempt succeeds
Phases == IF user_data_dir = None THEN {"real", "temp"} ELSE {"real"}

\* caller c spawned a browser for candidate k in phase ph, and a kill was
\* issued to it
TriedAndKilled(c, ph, k) ==
  \E pid \in SpawnedBy(c) :
    /\ procs[pid].phase = ph
    /\ procs[pid].port = ports[k]
    /\ procs[pid].kills > 0

\* every candidate port was tried in every phase and no attempt gave a
\* session
AllAttemptsFailed(c) ==
  /\ call[c].pc = "done"
  /\ call[c].session = NoSession
  /\ \A ph \in Phases : \A k \in 1 .. Len(ports) : TriedAndKilled(c, ph, k)

\* C17: a call whose every spawn attempt, on every candidate port and in
\* every phase, failed to become reachable ends with the RuntimeError that
\* lists all candidate ports and the error of the last attempt; and that
\* error is raised only after all these attempts (the temporary-profile
\* ones only when the caller pinned no profile directory), with no session.
C17_FatalAfterAllAttempts ==
  \A c \in Callers :
    /\ AllAttemptsFailed(c) =>
         /\ call[c].exc.type = "RuntimeError"
         /\ call[c].exc.ports = CandidatePorts(port)
         /\ call[c].exc.last_error =
              <<IF user_data_dir = None THEN "temp" ELSE "real",
                ports[Len(ports)]>>
    /\ call[c].exc.type = "RuntimeError" /\ call[c].session = NoSession =>
         /\ AllAttemptsFailed(c)
         /\ \A pid \in SpawnedBy(c) : procs[pid].phase \in Phases
         /\ Cardinality(SpawnedBy(c)) = Len(ports) * Cardinality(Phases)

C17_Witness ==
  /\ call[1].exc.type = "RuntimeError"
  /\ call[1].session = NoSession
  /\ user_data_dir = None
  /\ Cardinality(SpawnedBy(1)) = 2 * Len(ports)

\* none of the install locations of the browser family exists
NoExecutable ==
  /\ browser \in {"edge", "chrome"}
  /\ \A k \in 1 .. Len(ExeCandidates(browser)) :
       ExeCandidates(browser)[k] \notin installed

\* C18: when no executable of the (supported) browser family exists, a
\* call spawns no process, creates no temporary directory, stays in the
\* real-profile phase at the first candidate port, and, unless it attached
\* to an endpoint found live, ends with FileNotFoundError.
C18_NotFoundIsFatal ==
  \A c \in Callers :
    (NoExecutable /\ call[c].pc # "idle") =>
      /\ SpawnedBy(c) = {}
      /\ MkDTemp(c) \notin tempCreated
      /\ call[c].phase = "real"
      /\ call[c].i <= 1
      /\ call[c].temp_udd = None
      /\ (call[c].pc = "done" /\ call[c].session = NoSession)
           => call[c].exc.type = "FileNotFoundError"

C18_Witness ==
  /\ NoExecutable
  /\ call[1].pc = "done"
  /\ call[1].exc.type = "FileNotFoundError"
  /\ call[1].i = 1

NoDuplicates(s) == \A j, k \in 1 .. Len(s) : s[j] = s[k] => j = k

\* C19 (as stated): the candidate list begins with the preferred port, holds
\* no port twice, and has the length the list has for every other preferred
\* port.
C19_FixedLength ==
  /\ ports[1] = port
  /\ NoDuplicates(ports)
  /\ \A p \in PreferredPorts : Len(ports) = Len(CandidatePorts(p))

\* C19 (amended): the candidate list begins with the preferred port, holds
\* no port twice, and has the length of the range 9223..9225 when the
\* preferred port lies in that range and one more otherwise; the browser
\* family plays no part.
C19_BoundedLength ==
  /\ ports[1] = port
  /\ NoDuplicates(ports)
  /\ Len(ports) = (RangeHi - RangeLo)
                    + (IF port \in RangeLo .. (RangeHi - 1) THEN 0 ELSE 1)
  /\ \A k \in 2 .. Len(ports) : ports[k] \in RangeLo .. (RangeHi - 1)

\* a call went through the whole list of a preferred port inside the range
C19_Witness ==
  /\ port = RangeLo
  /\ call[1].i = Len(ports)
  /\ call[1].pc = "kill"

\* C20: in an export, a frame that recv_until returns is a reply whose id
\* is the id of the command just sent (Page.navigate while the navigate
\* reply is awaited, Network.getAllCookies while the cookies are awaited),
\* and recv_until is left for the next step only with such a frame.
C20_RecvUntilReturnsAwaited ==
  [][\A c \in Callers :
       (/\ op = "export"
        /\ call[c].pc \in {"nav_reply", "cookies_reply"}
        /\ \/ frame' # frame
           \/ call'[c].pc = "load_event"
           \/ out_file' # out_file)
         => /\ frame'.kind = "reply"
            /\ frame'.id = sent[Len(sent)].id
            /\ sent[Len(sent)].method =
                 (IF call[c].pc = "nav_reply" THEN "Page.navigate"
                  ELSE "Network.getAllCookies")
    ]_vars

C20_Witness ==
  /\ op = "export"
  /\ call[1].pc = "done"
  /\ frame.kind = "reply"
  /\ frame.id = 4
  /\ out_file # NoFile

(***************************************************************************)
(* downloader.download (downloader.py, line 115-289).  It runs in the     *)
(* thread of caller 1; its calls of fetch_douyin_detail_json_via_cdp and  *)
(* export_netscape_cookies_via_cdp are the requests modelled above, run   *)
(* to their end before download goes on.                                   *)
(***************************************************************************)
\* the option sets download is followed with
DownloadOptionSets ==
  {DlOpts(FALSE, FALSE, FALSE, FALSE, "none"),
   DlOpts(TRUE, FALSE, FALSE, FALSE, "none"),
   DlOpts(TRUE, TRUE, FALSE, FALSE, "none"),
   DlOpts(TRUE, TRUE, TRUE, FALSE, "none"),
   DlOpts(TRUE, FALSE, TRUE, FALSE, "none"),
   DlOpts(TRUE, FALSE, TRUE, TRUE, "none"),
   DlOpts(TRUE, FALSE, TRUE, FALSE, "valid"),
   DlOpts(TRUE, FALSE, FALSE, TRUE, "none"),
   DlOpts(TRUE, FALSE, FALSE, TRUE, "valid"),
   DlOpts(TRUE, FALSE, FALSE, FALSE, "valid"),
   DlOpts(TRUE, FALSE, FALSE, FALSE, "invalid")}

\* what download leaves alone
world == <<browser, port, user_data_dir, headless, installed, opts, live,
           procs, tempCreated, rmtreeCalled, dropped, arg, val, gui>>

\* an exception leaves download
DlRaise(type) == dl' = [dl EXCEPT !.pc = "raised", !.exc = type]

\* line 116-122: the empty-text check and out_dir.mkdir
DlStart ==
  /\ dl.pc = "start"
  /\ \/ /\ ~opts.text
        /\ DlRaise("DouyinDownloaderError")
     \/ \* mkdir raises
        /\ opts.text
        /\ DlRaise("OSError")
     \/ /\ opts.text
        /\ dl' = [dl EXCEPT !.pc = IF opts.via_cdp THEN "call_fetch"
                                    ELSE "options"]
  /\ UNCHANGED <<world, call, body>>

\* line 126-134: fetch_douyin_detail_json_via_cdp is called
DlCallFetch ==
  /\ dl.pc = "call_fetch"
  /\ op' = "fetch"
  /\ call' = [call EXCEPT ![1] = StartCall]
  /\ dl' = [dl EXCEPT !.pc = "in_fetch"]
  /\ UNCHANGED <<world, now, deadline, msg_id, sent, candidates, cur, frame,
                 ret, out_file>>

\* the shapes of the captured object as line 145-158 reads it: no playable
\* URL, a URL list under video.play_addr, or one under video.bit_rate[0]
Playable == {"none", "play_addr", "bit_rate"}

\* line 135-162: the capture raised, or returned the JSON the media URL is
\* taken from
DlFetchDone ==
  /\ dl.pc = "in_fetch"
  /\ call[1].pc = "done"
  /\ IF call[1].exc.type # None
       THEN \* line 135-143
            DlRaise("DouyinDownloaderError")
     ELSE IF ret.json = "array"
       THEN \* line 145: a list has no attribute get
            DlRaise("AttributeError")
     ELSE \E p \in Playable :
            IF p = "none"
              THEN DlRaise("DouyinDownloaderError")
              ELSE dl' = [dl EXCEPT !.pc = "transfer", !.media = p]
  /\ UNCHANGED <<world, call, body>>

\* the parameters of cdp.download_url_to_file (cdp.py, line 462) and the
\* arguments download passes by keyword (line 180-186)
DownloadUrlParams == {"url", "out_path", "user_agent", "referer"}
TransferKeywords == {"user_agent", "referer", "progress_cb"}

\* line 180-187: download_url_to_file and the return of out_path
DlTransfer ==
  /\ dl.pc = "transfer"
  /\ IF ~(TransferKeywords \subseteq DownloadUrlParams)
       THEN \* the call cannot be bound to the function's parameters
            DlRaise("TypeError")
       ELSE \/ DlRaise("URLError")
            \/ DlRaise("OSError")
            \/ dl' = [dl EXCEPT !.pc = "returned", !.result = "out_path"]
  /\ UNCHANGED <<world, call, body>>

\* line 198-206: the checks on the cookie options
DlOptions ==
  /\ dl.pc = "options"
  /\ IF opts.cookies_from_cdp
          /\ (opts.cookies \/ opts.cookies_from_browser # "none"
              \/ opts.via_cdp)
       THEN DlRaise("DouyinDownloaderError")
     ELSE IF opts.cookies_from_browser # "none" /\ opts.cookies
       THEN DlRaise("DouyinDownloaderError")
     ELSE IF opts.cookies_from_browser = "invalid"
       THEN \* parse_cookies_from_browser raises
            DlRaise("DouyinDownloaderError")
     ELSE dl' = [dl EXCEPT
                   !.pc = IF opts.cookies_from_cdp THEN "call_export"
                          ELSE "ydl",
                   !.cookiefile = IF opts.cookies THEN "given" ELSE None]
  /\ UNCHANGED <<world, call, body>>

\* line 208-218: export_netscape_cookies_via_cdp is called
DlCallExport ==
  /\ dl.pc = "call_export"
  /\ op' = "export"
  /\ call' = [call EXCEPT ![1] = StartCall]
  /\ dl' = [dl EXCEPT !.pc = "in_export"]
  /\ UNCHANGED <<world, now, deadline, msg_id, sent, candidates, cur, frame,
                 ret, out_file>>

\* line 210-219: the call stands in no try block, so what the export raised
\* leaves download as it is
DlExportDone ==
  /\ dl.pc = "in_export"
  /\ call[1].pc = "done"
  /\ IF call[1].exc.type # None
       THEN DlRaise(call[1].exc.type)
       ELSE dl' = [dl EXCEPT !.pc = "ydl", !.cookiefile = "tmp_cookies"]
  /\ UNCHANGED <<world, call, body>>

\* line 260-289: yt-dlp downloads, or raises and the exception is wrapped
DlYdl ==
  /\ dl.pc = "ydl"
  /\ \/ DlRaise("DouyinDownloaderError")
     \/ dl' = [dl EXCEPT !.pc = "returned", !.result = None]
  /\ UNCHANGED <<world, call, body>>

Download ==
  \/ DlStart
  \/ DlCallFetch
  \/ DlFetchDone
  \/ DlTransfer
  \/ DlOptions
  \/ DlCallExport
  \/ DlExportDone
  \/ DlYdl

InitDownload ==
  /\ browser = "edge"
  /\ port = RangeLo
  /\ user_data_dir = None
  /\ headless = FALSE
  /\ installed = {"edge_pf"}
  /\ live = {}
  /\ procs = <<>>
  /\ tempCreated = {}
  /\ rmtreeCalled = {}
  /\ call = [c \in Callers |-> IdleCall]
  /\ op = "none"
  /\ now = 0
  /\ deadline = 0
  /\ msg_id = 0
  /\ sent = <<>>
  /\ candidates = <<>>
  /\ cur = [req_id |-> "", body_id |-> 0]
  /\ frame = NoFrame
  /\ ret = NoReturn
  /\ out_file = NoFile
  /\ dropped = {}
  /\ NoText
  /\ NoGui
  /\ opts \in DownloadOptionSets
  /\ dl = [IdleDl EXCEPT !.pc = "start"]

NextDownload ==
  \/ Download
  \/ Env
  \/ Request(1)

SpecDownload == InitDownload /\ [][NextDownload]_vars

\* C16: whenever download ends with an exception, the exception is a
\* DouyinDownloaderError.
C16_OnlyTypedError ==
  dl.pc = "raised" => dl.exc = "DouyinDownloaderError"

(***************************************************************************)
(* The cookie exporter on one connection: the session is there and the     *)
(* socket is open; the events recv_until passes over are recorded.         *)
(***************************************************************************)
InitExport ==
  /\ browser = "edge"
  /\ port = DefaultPort
  /\ user_data_dir = None
  /\ headless = FALSE
  /\ installed = {"edge_pf"}
  /\ live = {}
  /\ procs = <<>>
  /\ tempCreated = {}
  /\ rmtreeCalled = {}
  /\ call = [c \in Callers |->
              IF c = 1
                THEN [IdleCall EXCEPT
                        !.pc = "setup", !.ws = "open",
                        !.session = CdpSession(port, NoProc, None)]
                ELSE IdleCall]
  /\ op = "export"
  /\ now = 0
  /\ deadline = 0
  /\ msg_id = 0
  /\ sent = <<>>
  /\ candidates = <<>>
  /\ cur = [req_id |-> "", body_id |-> 0]
  /\ frame = NoFrame
  /\ ret = NoReturn
  /\ out_file = NoFile
  /\ dropped = {}
  /\ NoText
  /\ NoGui
  /\ NoDownload

NextExport ==
  \E c \in Callers :
    \/ ExportSetup(c)
    \/ RecvUntilIdle(c)
    \/ RecvUntilSeen(c)
    \/ WaitEventIdle(c)
    \/ WaitEventFrame(c)
    \/ CloseWs(c)
    \/ StopCdpBrowser(c)

SpecExport == InitExport /\ [][NextExport]_vars

\* C21: once Page.loadEventFired was delivered while the navigate reply was
\* awaited, the load-event wait that follows does not end by its timeout
\* and does not fail on a silent socket: it ends on that event.
C21_LoadEventNotLost ==
  [][\A c \in Callers :
       (/\ op = "export"
        /\ call[c].pc = "load_event"
        /\ "Page.loadEventFired" \in dropped
        /\ call'[c].pc # "load_event")
         => /\ ~Expired(now, deadline)
            /\ call'[c].pc = "cookies_reply"
    ]_vars

\* the reply to Network.getAllCookies has been returned by recv_until
CookiesReplied ==
  /\ frame.kind = "reply"
  /\ \E k \in 1 .. Len(sent) :
       sent[k].method = "Network.getAllCookies" /\ sent[k].id = frame.id

\* C30: in an export, as long as the reply to getAllCookies has not been
\* received (whatever the export failed on before), no cookie file has been
\* written, and no command has been sent twice.
C30_NoFileBeforeCookies ==
  op = "export" =>
    /\ ~CookiesReplied => out_file = NoFile
    /\ \A j, k \in 1 .. Len(sent) : sent[j].method = sent[k].method => j = k

\* the export failed on the timeout of the getAllCookies reply
C30_Witness ==
  /\ op = "export"
  /\ call[1].pc = "done"
  /\ call[1].exc.type = "TimeoutError"
  /\ Len(sent) = 4
  /\ out_file = NoFile

(***************************************************************************)
(* The capture driver on one connection: the session is there, the socket  *)
(* is open and nothing has been sent yet.  Every frame the scan loop reads *)
(* is kept in frame, and the peer can close the connection, after which    *)
(* every ws.recv() raises.                                                 *)
(***************************************************************************)
InitCapture ==
  /\ browser = "edge"
  /\ port = DefaultPort
  /\ user_data_dir = None
  /\ headless = FALSE
  /\ installed = {"edge_pf"}
  /\ live = {}
  /\ procs = <<>>
  /\ tempCreated = {}
  /\ rmtreeCalled = {}
  /\ call = [c \in Callers |->
              IF c = 1
                THEN [IdleCall EXCEPT
                        !.pc = "setup", !.ws = "open",
                        !.session = CdpSession(port, NoProc, None)]
                ELSE IdleCall]
  /\ op = "fetch"
  /\ now = 0
  /\ deadline = 0
  /\ msg_id = 0
  /\ sent = <<>>
  /\ candidates = <<>>
  /\ cur = [req_id |-> "", body_id |-> 0]
  /\ frame = NoFrame
  /\ ret = NoReturn
  /\ out_file = NoFile
  /\ dropped = {}
  /\ NoText
  /\ NoGui
  /\ NoDownload

\* the connection is closed by the peer while the driver is inside one of
\* its read loops, so that the next ws.recv() meets the closed socket
SocketFails(c) ==
  /\ op = "fetch"
  /\ call[c].pc \in {"scan", "body"}
  /\ call[c].ws = "open"
  /\ ~Expired(now, deadline)
  /\ call' = [call EXCEPT ![c].ws = "broken"]
  /\ UNCHANGED <<args, body, live, procs, tempCreated, rmtreeCalled>>

NextCapture ==
  \E c \in Callers :
    \/ FetchSetup(c)
    \/ ScanIdle(c)
    \/ CaptureFrame(c)
    \/ BodyIdle(c)
    \/ BodyReply(c)
    \/ SocketFails(c)
    \/ CloseWs(c)
    \/ StopCdpBrowser(c)

SpecCapture == InitCapture /\ [][NextCapture]_vars

\* C25: on a connection the k-th command sent carries the id k, the id
\* counter never goes down, and a step that sends commands appends them to
\* what was sent, with ids above every id used before.
C25_IdsIncrease ==
  [][/\ \A k \in 1 .. Len(sent') : sent'[k].id = k
     /\ msg_id' >= msg_id
     /\ msg_id' >= Len(sent')
     /\ Len(sent') >= Len(sent)
     /\ SubSeq(sent', 1, Len(sent)) = sent
     /\ \A k \in (Len(sent) + 1) .. Len(sent') : sent'[k].id > msg_id
    ]_vars

\* two getResponseBody commands went out, the second after a body that did
\* not parse
C25_Witness ==
  /\ op = "fetch"
  /\ Len(BodyRequests) = 2
  /\ Len(sent) = 5
  /\ sent[5].method = "Network.getResponseBody"
  /\ sent[5].id = 5

\* C26: the scan loop sends Network.getResponseBody only in the step in
\* which it reads a Network.loadingFinished frame whose request id is in
\* candidates, and for that id; a request id enters candidates only in the
\* step in which a Network.responseReceived frame with that id, the detail
\* path and an accepted content type is read, and that step sends nothing.
C26_BodyAfterResponseAndFinish ==
  [][\A c \in Callers :
       (op = "fetch" /\ call[c].pc = "scan") =>
         /\ sent' # sent =>
              /\ frame'.method = "Network.loadingFinished"
              /\ frame'.requestId \in DOMAIN candidates
              /\ sent' = Append(sent, Command(msg_id + 1,
                                              "Network.getResponseBody",
                                              frame'.requestId))
         /\ \A r \in DOMAIN candidates' \ DOMAIN candidates :
              /\ frame'.method = "Network.responseReceived"
              /\ frame'.requestId = r
              /\ PathAndTypeMatch(frame')
              /\ sent' = sent
    ]_vars

\* the body of a recorded request was asked for at its loadingFinished
C26_Witness ==
  /\ op = "fetch"
  /\ call[1].pc = "body"
  /\ frame.method = "Network.loadingFinished"
  /\ frame.requestId = cur.req_id
  /\ cur.req_id \in DOMAIN candidates
  /\ Len(BodyRequests) = 1

\* C27: all getResponseBody commands of a capture are for one request id
\* (the first that qualified).
C27_OnlyFirstTracked ==
  \A j, k \in 1 .. Len(BodyRequests) :
    BodyRequests[j].requestId = BodyRequests[k].requestId

\* C28: when the reply to getResponseBody for a request id has been
\* received (the body parsed and returned, or did not parse and the scan
\* goes on), candidates no longer holds that id.
C28_EntryLeavesAfterBody ==
  [][\A c \in Callers :
       (/\ op = "fetch"
        /\ call[c].pc = "body"
        /\ call'[c].pc \in {"scan", "closews"}
        /\ call'[c].exc = NoError)
         => cur.req_id \notin DOMAIN candidates'
    ]_vars

\* C29: a capture whose connection was closed while the driver listened
\* ends with the exception of the socket.
C29_SocketFailureReported ==
  \A c \in Callers :
    (op = "fetch" /\ call[c].ws = "broken" /\ call[c].pc = "closews")
      => call[c].exc.type = "WebSocketConnectionClosedException"

\* caller c has begun the temporary-profile phase: the directory was made,
\* the call is in that phase, or a browser was spawned on it
TempBegun(c) ==
  \/ MkDTemp(c) \in tempCreated
  \/ call[c].phase = "temp"
  \/ call[c].temp_udd # None
  \/ \E pid \in SpawnedBy(c) : procs[pid].phase = "temp"

\* C24: when a call has begun the temporary-profile phase, the caller
\* pinned no profile directory and every candidate port was tried before
\* with the real profile (a browser spawned on it, waited for and killed);
\* every temporary-profile browser runs on the directory made for the call.
C24_TempOnlyAfterReal ==
  \A c \in Callers :
    /\ TempBegun(c) =>
         /\ user_data_dir = None
         /\ \A k \in 1 .. Len(ports) : TriedAndKilled(c, "real", k)
    /\ \A pid \in SpawnedBy(c) :
         procs[pid].phase = "temp" =>
           /\ procs[pid].udd = MkDTemp(c)
           /\ MkDTemp(c) \in tempCreated

\* a browser runs on the temporary profile
C24_Witness ==
  /\ user_data_dir = None
  /\ \E pid \in SpawnedBy(1) : procs[pid].phase = "temp"
  /\ Cardinality(SpawnedBy(1)) = Len(ports) + 1

\* ---------------------------------------------------------------------
\* cli.extract_url (line 20-30; downloader.py line 42-49 is the same code)
\* ---------------------------------------------------------------------

\* A text is a sequence of pieces: "http", "s" and "://" spell the scheme,
\* "a" is any other character that is neither white space nor punctuation,
\* "." is a character of _TRAILING_PUNCT and " " is white space.
Alphabet == {"http", "s", "://", "a", ".", " "}

Whitespace == {" "}

TRAILING_PUNCT == {"."}

\* the longest text tried
MaxText == 6

Texts == UNION {[1 .. n -> Alphabet] : n \in 0 .. MaxText}

\* every variable of the browser session at rest: no call is under way
AtRest ==
  /\ browser = "edge"
  /\ port = DefaultPort
  /\ user_data_dir = None
  /\ headless = FALSE
  /\ installed = {"edge_pf"}
  /\ live = {}
  /\ procs = <<>>
  /\ tempCreated = {}
  /\ rmtreeCalled = {}
  /\ call = [c \in Callers |-> IdleCall]
  /\ op = "none"
  /\ now = 0
  /\ deadline = 0
  /\ msg_id = 0
  /\ sent = <<>>
  /\ candidates = <<>>
  /\ cur = [req_id |-> "", body_id |-> 0]
  /\ frame = NoFrame
  /\ ret = NoReturn
  /\ out_file = NoFile
  /\ dropped = {}
  /\ NoDownload
  /\ NoGui

\* what a call of a text function leaves alone
session == <<browser, port, user_data_dir, headless, installed, live, procs,
             tempCreated, rmtreeCalled, call, body, opts, dl, dropped, gui>>

\* "https?://" tried at position i: the number of pieces it takes, 0 when it
\* does not match there (the optional s is tried first)
SchemeAt(text, i) ==
  IF i > Len(text) \/ text[i] # "http" THEN 0
  ELSE IF i + 2 <= Len(text) /\ text[i + 1] = "s" /\ text[i + 2] = "://"
    THEN 3
  ELSE IF i + 1 <= Len(text) /\ text[i + 1] = "://" THEN 2
  ELSE 0

\* the greedy "\S" run from position j: the position behind it
RECURSIVE NonSpaceRun(_, _)
NonSpaceRun(text, j) ==
  IF j <= Len(text) /\ text[j] \notin Whitespace
    THEN NonSpaceRun(text, j + 1)
    ELSE j

\* "https?://\S+" tried at position i: the position behind the match, 0 when
\* there is none ("\S+" needs one character)
MatchAt(text, i) ==
  LET n == SchemeAt(text, i)
      e == NonSpaceRun(text, i + n)
  IN IF n = 0 \/ e = i + n THEN 0 ELSE e

NoMatch == [start |-> 0, end |-> 0]

\* re.search: the match at the leftmost position that has one
RECURSIVE ReSearch(_, _)
ReSearch(text, i) ==
  IF i > Len(text) THEN NoMatch
  ELSE IF MatchAt(text, i) # 0
    THEN [start |-> i, end |-> MatchAt(text, i) - 1]
  ELSE ReSearch(text, i + 1)

\* str.rstrip(chars)
RECURSIVE RStrip(_, _)
RStrip(str, chars) ==
  IF str # <<>> /\ str[Len(str)] \in chars
    THEN RStrip(SubSeq(str, 1, Len(str) - 1), chars)
    ELSE str

\* str.lstrip(chars)
RECURSIVE LStrip(_, _)
LStrip(str, chars) ==
  IF str # <<>> /\ str[1] \in chars THEN LStrip(Tail(str), chars) ELSE str

\* str.strip()
Strip(str) == RStrip(LStrip(str, Whitespace), Whitespace)

PyNone == [kind |-> "None"]

PyStr(str) == [kind |-> "str", str |-> str]

\* (mutant) the match is returned as it was found
ExtractUrlUnstripped(text) ==
  LET found == ReSearch(text, 1)
  IN IF found = NoMatch THEN PyNone
     ELSE PyStr(Strip(SubSeq(text, found.start, found.end)))

\* line 23-30
ExtractUrl(text) ==
  LET found == ReSearch(text, 1)
  IN IF found = NoMatch THEN PyNone
     ELSE PyStr(RStrip(Strip(SubSeq(text, found.start, found.end)),
                       TRAILING_PUNCT))

InitExtract ==
  /\ AtRest
  /\ arg \in Texts
  /\ val = NoVal

\* extract_url(arg) is called
ExtractUrlCall ==
  /\ val = NoVal
  /\ val' = ExtractUrl(arg)
  /\ UNCHANGED <<session, arg>>

NextExtract == ExtractUrlCall

SpecExtract == InitExtract /\ [][NextExtract]_vars

\* a URL starts at position i of the text: the scheme, then a character that
\* is no white space
UrlStartsAt(text, i) ==
  /\ i \in 1 .. Len(text)
  /\ \/ /\ i + 2 <= Len(text)
        /\ SubSeq(text, i, i + 1) = <<"http", "://">>
        /\ text[i + 2] \notin Whitespace
     \/ /\ i + 3 <= Len(text)
        /\ SubSeq(text, i, i + 2) = <<"http", "s", "://">>
        /\ text[i + 3] \notin Whitespace

\* the pieces i .. j of the text are a maximal run without white space
\* from i
MaximalRun(text, i, j) ==
  /\ \A k \in i .. j : text[k] \notin Whitespace
  /\ j = Len(text) \/ text[j + 1] \in Whitespace

\* url is run with its trailing punctuation taken off
WithoutTrailingPunct(url, run) ==
  /\ Len(url) <= Len(run)
  /\ url = SubSeq(run, 1, Len(url))
  /\ \A k \in (Len(url) + 1) .. Len(run) : run[k] \in TRAILING_PUNCT
  /\ url = <<>> \/ url[Len(url)] \notin TRAILING_PUNCT

\* C22: extract_url returns None exactly when no URL starts anywhere in the
\* text (a URL being http:// or https:// followed by at least one
\* character that is no white space); otherwise it returns the maximal run
\* of characters that are no white space from the first position at which
\* a URL starts, with the trailing punctuation taken off, whatever share
\* text stands before or behind.
C22_FirstUrlStripped ==
  val # NoVal =>
    IF \A i \in 1 .. Len(arg) : ~UrlStartsAt(arg, i)
      THEN val = PyNone
      ELSE \E i, j \in 1 .. Len(arg) :
             /\ UrlStartsAt(arg, i)
             /\ \A h \in 1 .. (i - 1) : ~UrlStartsAt(arg, h)
             /\ i <= j
             /\ MaximalRun(arg, i, j)
             /\ val.kind = "str"
             /\ WithoutTrailingPunct(val.str, SubSeq(arg, i, j))

\* share text, then a URL that ends in punctuation: the URL comes back
\* without the share text and without the punctuation
C22_Witness ==
  /\ arg = <<"a", " ", "http", "://", "a", ".">>
  /\ val = PyStr(<<"http", "://", "a">>)

\* ---------------------------------------------------------------------
\* cli.parse_cookies_from_browser (line 33-75; downloader.py line 52-88 is
\* the same code with DouyinDownloaderError in the place of ValueError)
\* ---------------------------------------------------------------------

\* A cookies-from-browser value is a sequence of pieces: four words, the
\* separators "+" and ":" and white space.
Words == {"edge", "Edge", "kwallet", "none"}

SpecAlphabet == Words \cup {"+", ":", " "}

\* the longest value tried
MaxSpec == 5

SpecTexts == UNION {[1 .. n -> SpecAlphabet] : n \in 0 .. MaxSpec}

\* yt_dlp.cookies.SUPPORTED_BROWSERS and SUPPORTED_KEYRINGS (line 11), as
\* far as the words above go
SUPPORTED_BROWSERS == {<<"edge">>}

SUPPORTED_KEYRINGS == {<<"KWALLET">>}

\* str.lower()
LowerStr(str) ==
  [k \in 1 .. Len(str) |-> IF str[k] = "Edge" THEN "edge" ELSE str[k]]

\* str.upper()
UpperStr(str) ==
  [k \in 1 .. Len(str) |->
     CASE str[k] \in {"edge", "Edge"} -> "EDGE"
       [] str[k] = "kwallet" -> "KWALLET"
       [] str[k] = "none" -> "NONE"
       [] OTHER -> str[k]]

\* the greedy "\s" run from position j: the position behind it
RECURSIVE SpaceRun(_, _)
SpaceRun(text, j) ==
  IF j <= Len(text) /\ text[j] \in Whitespace
    THEN SpaceRun(text, j + 1)
    ELSE j

ReFail == [ok |-> FALSE]

\* "(?:\s*::\s*(?P<container>.+))?" and the end of the text, tried at
\* position i: the group is tried first, with as much white space as leaves
\* the container one character; without the group the text must end at i
MatchContainer(text, i) ==
  LET p == SpaceRun(text, i)
      q == Min(SpaceRun(text, p + 2), Len(text))
  IN IF /\ p + 2 <= Len(text)
        /\ text[p] = ":"
        /\ text[p + 1] = ":"
       THEN [ok |-> TRUE, container |-> PyStr(SubSeq(text, q, Len(text)))]
     ELSE IF i = Len(text) + 1 THEN [ok |-> TRUE, container |-> PyNone]
     ELSE ReFail

\* the lazy ".+?" of the profile from position q: the first end from e on
\* behind which the rest of the pattern matches, 0 when there is none
RECURSIVE ProfileEnd(_, _, _)
ProfileEnd(text, q, e) ==
  IF e > Len(text) THEN 0
  ELSE IF MatchContainer(text, e + 1).ok THEN e
  ELSE ProfileEnd(text, q, e + 1)

\* the greedy "\s*" in front of the profile, which may end at q or before
\* it, down to lo: the last position that is not in front of a colon
\* ("(?!:)") and from which a profile is found, 0 when there is none
RECURSIVE ProfileStart(_, _, _)
ProfileStart(text, q, lo) ==
  IF q < lo THEN 0
  ELSE IF /\ q <= Len(text)
          /\ text[q] # ":"
          /\ ProfileEnd(text, q, q) # 0
    THEN q
  ELSE ProfileStart(text, q - 1, lo)

\* "(?:\s*:\s*(?!:)(?P<profile>.+?))?" and what follows, tried at position
\* i: the group is tried first and is left out when no choice lets the rest
\* match
MatchProfile(text, i) ==
  LET p == SpaceRun(text, i)
      q == IF p <= Len(text) /\ text[p] = ":"
             THEN ProfileStart(text, SpaceRun(text, p + 1), p + 1)
             ELSE 0
      e == ProfileEnd(text, q, q)
  IN IF q # 0
       THEN [ok |-> TRUE, profile |-> PyStr(SubSeq(text, q, e)),
             container |-> MatchContainer(text, e + 1).container]
     ELSE IF MatchContainer(text, i).ok
       THEN [ok |-> TRUE, profile |-> PyNone,
             container |-> MatchContainer(text, i).container]
     ELSE ReFail

\* the position behind the run from j of pieces that are not in chars
RECURSIVE RunOutside(_, _, _)
RunOutside(text, j, chars) ==
  IF j <= Len(text) /\ text[j] \notin chars
    THEN RunOutside(text, j + 1, chars)
    ELSE j

\* the greedy "[^:]+" of the keyring from position q: the last end, from e
\* down, behind which the rest of the pattern matches, 0 when there is none
RECURSIVE KeyringEnd(_, _, _)
KeyringEnd(text, q, e) ==
  IF e < q THEN 0
  ELSE IF MatchProfile(text, e + 1).ok THEN e
  ELSE KeyringEnd(text, q, e - 1)

\* the greedy "\s*" in front of the keyring, which may end at q or before
\* it, down to lo: the last position from which a keyring is found
RECURSIVE KeyringStart(_, _, _)
KeyringStart(text, q, lo) ==
  IF q < lo THEN 0
  ELSE IF KeyringEnd(text, q, RunOutside(text, q, {":"}) - 1) # 0 THEN q
  ELSE KeyringStart(text, q - 1, lo)

\* "(?:\s*\+\s*(?P<keyring>[^:]+))?" and what follows, tried at position i
MatchKeyring(text, i) ==
  LET p == SpaceRun(text, i)
      q == IF p <= Len(text) /\ text[p] = "+"
             THEN KeyringStart(text, SpaceRun(text, p + 1), p + 1)
             ELSE 0
      e == KeyringEnd(text, q, RunOutside(text, q, {":"}) - 1)
      rest == MatchProfile(text, IF q # 0 THEN e + 1 ELSE i)
  IN IF q # 0
       THEN [ok |-> TRUE, keyring |-> PyStr(SubSeq(text, q, e)),
             profile |-> rest.profile, container |-> rest.container]
     ELSE IF rest.ok
       THEN [ok |-> TRUE, keyring |-> PyNone,
             profile |-> rest.profile, container |-> rest.container]
     ELSE ReFail

\* the greedy "[^+:]+" of the name: the last end, from a down, behind which
\* the rest of the pattern matches, 0 when there is none
RECURSIVE NameEnd(_, _)
NameEnd(text, a) ==
  IF a < 1 THEN 0
  ELSE IF MatchKeyring(text, a + 1).ok THEN a
  ELSE NameEnd(text, a - 1)

\* re.fullmatch of the whole pattern
ReFullMatch(text) ==
  LET a == NameEnd(text, RunOutside(text, 1, {"+", ":"}) - 1)
      rest == MatchKeyring(text, a + 1)
  IN IF a = 0 THEN ReFail
     ELSE [ok |-> TRUE, name |-> SubSeq(text, 1, a),
           keyring |-> rest.keyring, profile |-> rest.profile,
           container |-> rest.container]

PyRaise(type) == [kind |-> "raise", type |-> type]

PyTuple(name, profile, keyring, container) ==
  [kind |-> "tuple", name |-> name, profile |-> profile,
   keyring |-> keyring, container |-> container]

\* (mutant) every keyring is taken
KeyringAny(keyring) == TRUE

\* line 62: keyring in SUPPORTED_KEYRINGS
KeyringSupported(keyring) == keyring \in SUPPORTED_KEYRINGS

\* str.strip() of a group that may be None
StripGroup(group) ==
  IF group = PyNone THEN PyNone ELSE PyStr(Strip(group.str))

\* line 49-75: what is made of the match, raising error where cli.py raises
\* ValueError
ParsedSpec(found, error) ==
  LET name == Strip(LowerStr(found.name))
      keyring == IF found.keyring = PyNone THEN PyNone
                 ELSE PyStr(Strip(UpperStr(found.keyring.str)))
      container == StripGroup(found.container)
  IN IF ~found.ok THEN PyRaise(error)
     ELSE IF name \notin SUPPORTED_BROWSERS THEN PyRaise(error)
     ELSE IF keyring # PyNone /\ ~KeyringSupported(keyring.str)
       THEN PyRaise(error)
     ELSE PyTuple(name, StripGroup(found.profile), keyring,
                  IF container # PyNone
                     /\ LowerStr(container.str) = <<"none">>
                    THEN PyNone
                    ELSE container)

\* line 33-75
ParseCookiesFromBrowser(spec, error) ==
  ParsedSpec(ReFullMatch(Strip(spec)), error)

\* the two modules that define the function and the error each raises
ParserErrors == {"ValueError", "DouyinDownloaderError"}

InitParse ==
  /\ AtRest
  /\ arg \in SpecTexts
  /\ val = NoVal

\* parse_cookies_from_browser(arg) is called, in cli or in downloader
ParseCookiesCall ==
  /\ val = NoVal
  /\ \E error \in ParserErrors : val' = ParseCookiesFromBrowser(arg, error)
  /\ UNCHANGED <<session, arg>>

NextParse == ParseCookiesCall

SpecParse == InitParse /\ [][NextParse]_vars

\* a browser name, keyring, profile or container as one writes it: words,
\* with single words or white space between them
Plain(str) ==
  /\ str # <<>>
  /\ str[1] \in Words
  /\ str[Len(str)] \in Words
  /\ \A k \in 1 .. Len(str) : str[k] \in Words \cup Whitespace

\* part is empty, or sep in front of something plain
OptionalPart(part, sep) ==
  \/ part = <<>>
  \/ /\ Len(part) > Len(sep)
     /\ SubSeq(part, 1, Len(sep)) = sep
     /\ Plain(SubSeq(part, Len(sep) + 1, Len(part)))

\* what stands behind sep in an optional part, None for an empty part
PartValue(part, sep) ==
  IF part = <<>> THEN PyNone
  ELSE PyStr(SubSeq(part, Len(sep) + 1, Len(part)))

\* text is BROWSER[+KEYRING][:PROFILE][::CONTAINER] with the browser ending
\* at e1, the keyring part at e2 and the profile part at e3
HasForm(text, e1, e2, e3) ==
  /\ 1 <= e1 /\ e1 <= e2 /\ e2 <= e3 /\ e3 <= Len(text)
  /\ Plain(SubSeq(text, 1, e1))
  /\ OptionalPart(SubSeq(text, e1 + 1, e2), <<"+">>)
  /\ OptionalPart(SubSeq(text, e2 + 1, e3), <<":">>)
  /\ OptionalPart(SubSeq(text, e3 + 1, Len(text)), <<":", ":">>)

\* C23: for a value of the form BROWSER[+KEYRING][:PROFILE][::CONTAINER],
\* parse_cookies_from_browser returns (browser in lower case, profile,
\* keyring in upper case, container), with None for a part that is left out
\* (and for the container "none"), when the browser and the keyring, if
\* any, are supported, and raises an error otherwise; so a bare supported
\* browser name gives (name, None, None, None) and NAME:PROFILE gives
\* (name, PROFILE, None, None).
C23_ParsesBrowserSpec ==
  val # NoVal =>
    \A e1, e2, e3 \in 1 .. Len(arg) :
      HasForm(arg, e1, e2, e3) =>
        LET name == LowerStr(SubSeq(arg, 1, e1))
            keyring == PartValue(SubSeq(arg, e1 + 1, e2), <<"+">>)
            profile == PartValue(SubSeq(arg, e2 + 1, e3), <<":">>)
            container == PartValue(SubSeq(arg, e3 + 1, Len(arg)),
                                   <<":", ":">>)
        IN IF /\ name \in SUPPORTED_BROWSERS
              /\ keyring # PyNone
                   => UpperStr(keyring.str) \in SUPPORTED_KEYRINGS
             THEN val = PyTuple(name, profile,
                                IF keyring = PyNone THEN PyNone
                                ELSE PyStr(UpperStr(keyring.str)),
                                IF container = PyStr(<<"none">>)
                                  THEN PyNone ELSE container)
             ELSE val.kind = "raise" /\ val.type \in ParserErrors

\* NAME:PROFILE was parsed: the name comes back in lower case, the profile
\* as written, and no keyring and no container
C23_Witness ==
  /\ arg = <<"Edge", ":", "Edge">>
  /\ val = PyTuple(<<"edge">>, PyStr(<<"Edge">>), PyNone, PyNone)

\* C31: in a cookie export and in a capture alike, the debugging socket of
\* a call is opened only by create_connection and only when the call has
\* none yet, a closed socket is never opened again, and a call whose socket
\* was opened takes the step that is stop_cdp_browser (which kills the
\* browser) and ends only with the socket closed.
C31_SocketClosedBeforeStop ==
  [][\A c \in Callers :
       /\ (call'[c].ws = "open" /\ call[c].ws # "open")
            => call[c].ws = "none" /\ call[c].pc = "connect"
       /\ call[c].ws = "closed" => call'[c].ws = "closed"
       /\ StopStep(c) => call[c].ws \in {"none", "closed"}
       /\ call'[c].pc = "done" => call'[c].ws \in {"none", "closed"}
    ]_vars

\* a capture that timed out has ended: its socket is closed and the browser
\* it spawned was killed
C31_Witness ==
  /\ op = "fetch"
  /\ call[1].pc = "done"
  /\ call[1].exc.type = "TimeoutError"
  /\ call[1].ws = "closed"
  /\ call[1].session.proc # NoProc
  /\ procs[call[1].session.proc].kills = 1

\* C32: when download, called with via_cdp, has got a captured object with
\* a playable URL list, it ends by returning out_path after the transfer of
\* download_url_to_file, or with an error of that transfer (the network or
\* the output file).
C32_TransferThenOutPath ==
  (dl.media # None /\ dl.pc \in {"returned", "raised"})
    => \/ dl.pc = "returned" /\ dl.result = "out_path"
       \/ dl.pc = "raised" /\ dl.exc \in {"URLError", "OSError"}

\* the options combine cookies_from_cdp with cookies, cookies_from_browser
\* or via_cdp
Combined ==
  /\ opts.cookies_from_cdp
  /\ opts.cookies \/ opts.cookies_from_browser # "none" \/ opts.via_cdp

\* C33: a download whose options combine cookies_from_cdp with cookies,
\* cookies_from_browser or via_cdp launches no browser, calls neither the
\* capture nor the export, starts no transfer and no yt-dlp download, and
\* ends with an error (DouyinDownloaderError, or the OSError of a failing
\* mkdir of the output directory).
C33_CombinedRejectedFirst ==
  Combined =>
    /\ op = "none"
    /\ call[1] = IdleCall
    /\ procs = <<>>
    /\ dl.pc \in {"start", "options", "raised"}
    /\ dl.pc = "raised" => dl.exc \in {"DouyinDownloaderError", "OSError"}

(***************************************************************************)
(* gui.App: the download button and its worker threads (gui.py, line       *)
(* 126-170).  start_download runs in the event loop of the main thread,    *)
(* one statement group at a time; _run_download runs in a thread of its    *)
(* own, and the statements of the two interleave.  A thread has ended when *)
(* the last statement of _run_download has run.                            *)
(***************************************************************************)
\* the clicks on the download button that are followed
MaxClicks == 4

\* how the try block of _run_download ends (line 144-167): download
\* returned, raised DouyinDownloaderError, or raised something else
Outcomes == {"ok", "DouyinDownloaderError", "Exception"}

\* threading.Thread(target=self._run_download, daemon=True), started
NewThread == [pc |-> "try", outcome |-> "none"]

\* the threads that have not run to their end
Running == {k \in DOMAIN gui.threads : gui.threads[k].pc # "ended"}

\* what a step of the window leaves alone
others == <<browser, port, user_data_dir, headless, installed, live, procs,
            tempCreated, rmtreeCalled, call, body, opts, dl, dropped, arg,
            val>>

\* a click on the button while it is disabled: the command is not called
ClickDisabled ==
  /\ gui.pc = "mainloop"
  /\ gui.clicks < MaxClicks
  /\ gui.download_btn = "disabled"
  /\ gui' = [gui EXCEPT !.clicks = @ + 1]
  /\ UNCHANGED others

\* line 126-136: a click on the enabled button calls start_download, which
\* returns when a download is running, when the text is empty or when no
\* output directory is set
StartDownloadChecks ==
  /\ gui.pc = "mainloop"
  /\ gui.clicks < MaxClicks
  /\ gui.download_btn = "normal"
  /\ \E text, out \in BOOLEAN :
       gui' = [gui EXCEPT
                 !.clicks = @ + 1,
                 !.pc = IF gui.is_running \/ ~text \/ ~out
                          THEN "mainloop" ELSE "start"]
  /\ UNCHANGED others

\* line 138-141: is_running is set, the button is disabled and the worker
\* thread is started
StartDownloadThread ==
  /\ gui.pc = "start"
  /\ gui' = [gui EXCEPT !.is_running = TRUE,
                        !.download_btn = "disabled",
                        !.threads = Append(@, NewThread),
                        !.pc = "mainloop"]
  /\ UNCHANGED others

\* (mutant) the flag and the button are reset after a download that
\* returned only
AfterHandlersOnSuccess(outcome) ==
  IF outcome = "ok" THEN "finally" ELSE "ended"

\* line 168: whatever the try block and the handlers did, the finally
\* clause runs next
AfterHandlers(outcome) == "finally"

\* line 144-156: the worker reads the widgets and calls download
RunDownload(k) ==
  /\ gui.threads[k].pc = "try"
  /\ \E o \in Outcomes :
       gui' = [gui EXCEPT !.threads[k].outcome = o,
                          !.threads[k].pc = "report"]
  /\ UNCHANGED others

\* line 157-167: the result is logged and shown (messagebox.showinfo), or
\* the except clause logs and shows the error; an exception raised in here
\* leaves through the finally clause as well
Report(k) ==
  /\ gui.threads[k].pc = "report"
  /\ gui' = [gui EXCEPT
               !.threads[k].pc = AfterHandlers(gui.threads[k].outcome)]
  /\ UNCHANGED others

\* line 169: self.is_running = False
ResetRunning(k) ==
  /\ gui.threads[k].pc = "finally"
  /\ gui' = [gui EXCEPT !.is_running = FALSE, !.threads[k].pc = "enable"]
  /\ UNCHANGED others

\* line 170: self.download_btn.config(state="normal"), the last statement
EnableButton(k) ==
  /\ gui.threads[k].pc = "enable"
  /\ gui' = [gui EXCEPT !.download_btn = "normal",
                        !.threads[k].pc = "ended"]
  /\ UNCHANGED others

InitGui ==
  /\ AtRest
  /\ NoText

NextGui ==
  \/ ClickDisabled
  \/ StartDownloadChecks
  \/ StartDownloadThread
  \/ \E k \in DOMAIN gui.threads :
       \/ RunDownload(k)
       \/ Report(k)
       \/ ResetRunning(k)
       \/ EnableButton(k)

SpecGui == InitGui /\ [][NextGui]_vars

\* C34: for every sequence of clicks, at most one worker thread has not run
\* to its end; while one is running is_running is true until its finally
\* clause and the button is disabled until its last statement; and when
\* every worker started has ended, however its download ended, is_running
\* is false and the button is enabled, so that the next click starts a
\* download.
C34_OneWorkerAndReset ==
  /\ Cardinality(Running) <= 1
  /\ \A k \in Running :
       /\ gui.download_btn = "disabled"
       /\ gui.threads[k].pc \in {"try", "report", "finally"}
            => gui.is_running
  /\ (Running = {} /\ gui.pc = "mainloop")
       => ~gui.is_running /\ gui.download_btn = "normal"

\* a download failed with an exception that is no DouyinDownloaderError, one
\* click was without effect, and a later click has started the second
\* worker
C34_Witness ==
  /\ Len(gui.threads) = 2
  /\ gui.threads[1].outcome = "Exception"
  /\ gui.threads[1].pc = "ended"
  /\ gui.threads[2].pc = "try"
  /\ gui.clicks = 3
  /\ gui.is_running

====
